---------------------------- MODULE Spec2Model ----------------------------
(***************************************************************************)
(* duviz: an interactive disk-usage visualizer.                            *)
(*                                                                         *)
(* The module holds these state machines over one set of variables:        *)
(*   Spec        the orchestrator (struct App and the event loop run_app   *)
(*               of main.rs) running against background scan tasks, each   *)
(*               taken at the granularity of the messages it sends;        *)
(*   SpecScan    one scan task of scan.rs in full: the enumeration loop,   *)
(*               the worker pool of du_sizes_parallel and the cancellation *)
(*               token, under every interleaving;                          *)
(*   SpecLayout  the pure layout functions of layout.rs applied to inputs  *)
(*               drawn from bounded sets;                                  *)
(*   SpecInvalidate  App::invalidate_cache_for applied to every cache over *)
(*               the directories of the model and every target path;       *)
(*   SpecScanLive  the scan task next to a second scan, with every thread  *)
(*               scheduled eventually and a du call that may hang;         *)
(*   SpecWorstRatio  worst_ratio_stats on a row before and after a heavier *)
(*               item is added;                                            *)
(*   SpecScanFair  the scan task of SpecScan with its thread and every     *)
(*               worker scheduled eventually.                              *)
(***************************************************************************)
EXTENDS Integers, Sequences, FiniteSets, TLC

(***************************************************************************)
(* Bounds of the model.                                                    *)
(***************************************************************************)
\* The model's stand-in for u64::MAX: sizes live in 0..U64Max.
U64Max == 7
\* Background scan tasks the orchestrator may start in one run.
MaxScans == 3

(***************************************************************************)
(* Option<T>: None is the empty tuple, Some(x) the one-element tuple.      *)
(***************************************************************************)
None == <<>>
Some(x) == <<x>>
IsSome(o) == o # <<>>
Unwrap(o) == o[1]

(***************************************************************************)
(* u64 arithmetic (scan.rs uses saturating_add / saturating_mul for the    *)
(* files aggregate and the du result, and Iterator::sum for the total).    *)
(***************************************************************************)
\* u64::wrapping_add.
wrapping_add(a, b) == (a + b) % (U64Max + 1)

saturating_add(a, b) == IF a + b > U64Max THEN U64Max ELSE a + b
wrapping(n) == n % (U64Max + 1)

(***************************************************************************)
(* Paths: a PathBuf is the sequence of its components, "/" the empty one.  *)
(***************************************************************************)
Root == <<>>
ProcRoot == <<"proc">>

\* Path::starts_with: q is a component-wise prefix of p.
starts_with(p, q) ==
    /\ Len(q) <= Len(p)
    /\ \A i \in 1..Len(q) : p[i] = q[i]

\* Path::parent: None for "/".
parent(p) == IF p = Root THEN None ELSE Some(SubSeq(p, 1, Len(p) - 1))

\* Path::file_name (to_string_lossy; unwrap_or_default is "" for "/").
file_name(p) == IF p = Root THEN "" ELSE p[Len(p)]

\* Path::join with a single component.
join(p, name) == Append(p, name)

\* A check that takes no path to be under /proc.
never_proc(p) == FALSE

is_proc_path(p) == starts_with(p, ProcRoot)

\* p is an ancestor of q, q itself, or a descendant of q.
IsAncestorOrSelf(p, q) == \E n \in 0..Len(q) : p = SubSeq(q, 1, n)
Related(p, q) == IsAncestorOrSelf(p, q) \/ IsAncestorOrSelf(q, p)

(***************************************************************************)
(* The file system the program runs against: /a holds the empty directory *)
(* b, the directory c with the file h, and the file f.  The nodes that a   *)
(* delete can remove are the state (variable fs); "/", "/proc" and the     *)
(* symbolic link "/l" -> "/a" are always there.                            *)
(***************************************************************************)
DirA == <<"a">>
DirB == <<"a", "b">>
DirC == <<"a", "c">>
FileF == <<"a", "f">>
FileH == <<"a", "c", "h">>
LinkL == <<"l">>

\* Every node, in the order read_dir yields the entries of a directory.
AllNodes == << DirA, LinkL, ProcRoot, DirB, FileF, DirC, FileH >>
Removable == { DirA, DirB, DirC, FileF, FileH }
Permanent == { Root, ProcRoot, LinkL }

NodeKind(n) ==
    IF n \in { Root, ProcRoot, DirA, DirB, DirC } THEN "dir"
    ELSE IF n = LinkL THEN "symlink"
    ELSE "file"

\* std::fs::Metadata::len of a regular file; FileH is a huge sparse file.
FileLen(n) == IF n = FileH THEN U64Max ELSE 1

Exists(disk, n) == n \in Permanent \/ n \in disk

\* fs::canonicalize(p).unwrap_or(p): symlinks resolved, the literal path when
\* resolution fails (the path does not exist).
canonicalize(disk, p) ==
    IF Len(p) >= 1 /\ <<p[1]>> = LinkL
    THEN LET q == DirA \o SubSeq(p, 2, Len(p))
         IN  IF Exists(disk, q) THEN q ELSE p
    ELSE p

IsChild(n, p) == Len(n) = Len(p) + 1 /\ starts_with(n, p)

\* fs::read_dir(p): the entries of p, or an error when p is not a directory
\* that exists.
Readable(disk, p) == Exists(disk, p) /\ NodeKind(p) = "dir"
read_dir(disk, p) == SelectSeq(AllNodes, LAMBDA n : IsChild(n, p) /\ Exists(disk, n))

RECURSIVE SumSeq(_)
SumSeq(s) == IF s = <<>> THEN 0 ELSE Head(s) + SumSeq(Tail(s))

\* What `du -k -x --apparent-size -s` reports for directory p, as bytes:
\* size_kb.saturating_mul(1024).
ApparentSize(disk, p) ==
    LET files == SelectSeq(AllNodes, LAMBDA n :
                     NodeKind(n) = "file" /\ n \in disk /\ starts_with(n, p))
        lens == [i \in 1..Len(files) |-> FileLen(files[i])]
    IN  SumSeq(lens)
du_size_single(disk, p) ==
    IF ApparentSize(disk, p) > U64Max THEN U64Max ELSE ApparentSize(disk, p)

\* fs::remove_dir_all / fs::remove_file on success.
RemoveTree(disk, p) == { n \in disk : ~starts_with(n, p) }

(***************************************************************************)
(* Items and scan results (scan.rs).                                       *)
(***************************************************************************)
ViewModes == { "Dirs", "Files" }

Item(name, path, size, kind, count) ==
    [name |-> name, path |-> path, size |-> size, kind |-> kind, count |-> count]

SizesOf(its) == [i \in 1..Len(its) |-> its[i].size]

\* items.iter().map(|i| i.size).sum(): the mathematical sum, and what a build
\* without overflow checks stores.
SumOverflows(its) == SumSeq(SizesOf(its)) > U64Max
SumSizes(its) == wrapping(SumSeq(SizesOf(its)))

\* items.sort_by(|a, b| b.size.cmp(&a.size)): a stable sort, descending.
RECURSIVE InsertDesc(_, _)
InsertDesc(sorted, it) ==
    IF sorted = <<>> THEN <<it>>
    ELSE IF Head(sorted).size >= it.size
         THEN <<Head(sorted)>> \o InsertDesc(Tail(sorted), it)
         ELSE <<it>> \o sorted
RECURSIVE SortDesc(_)
SortDesc(its) ==
    IF its = <<>> THEN <<>>
    ELSE InsertDesc(SortDesc(SubSeq(its, 1, Len(its) - 1)), its[Len(its)])

files_label(n) == "(Files: " \o ToString(n) \o ")"


\* One pass of scan_dir_approx over the entries of `path` (the loop of lines
\* 81-146 and the files aggregate of 148-155, then the sizes the worker pool
\* reports, 157-176).  `zeroed` are the subdirectories whose size stays 0:
\* du failed for them, or the workers stopped before sizing them.
DirEntries(ents) ==
    SelectSeq(ents, LAMBDA n : ~is_proc_path(n) /\ NodeKind(n) = "dir")
FileEntries(ents) ==
    SelectSeq(ents, LAMBDA n : ~is_proc_path(n) /\ NodeKind(n) = "file")

RECURSIVE files_total(_)
files_total(files) ==
    IF files = <<>> THEN 0
    ELSE saturating_add(files_total(SubSeq(files, 1, Len(files) - 1)),
                        FileLen(files[Len(files)]))

scan_dir_items(disk, path, zeroed) ==
    LET ents == read_dir(disk, path)
        dirs == DirEntries(ents)
        files == FileEntries(ents)
        base_canon == canonicalize(disk, path)
    IN  [i \in 1..Len(dirs) |->
            Item(file_name(dirs[i]), dirs[i],
                 IF dirs[i] \in zeroed THEN 0 ELSE du_size_single(disk, dirs[i]),
                 "Dir", 0)]
        \o << Item(files_label(Len(files)), base_canon, files_total(files),
                   "FilesAggregate", Len(files)) >>

\* scan_files_direct: one File item per regular file (lines 203-254).
scan_files_items(disk, path) ==
    LET files == FileEntries(read_dir(disk, path))
    IN  [i \in 1..Len(files) |->
            Item(file_name(files[i]), files[i], FileLen(files[i]), "File", 0)]

\* Entries the enumeration loop counts in `scanned`.
ScannedCount(disk, path, view) ==
    LET ents == read_dir(disk, path)
    IN  IF view = "Dirs" THEN Len(DirEntries(ents)) + Len(FileEntries(ents))
        ELSE Len(FileEntries(ents))

(***************************************************************************)
(* Messages of a scan (enum ScanMsg).                                      *)
(***************************************************************************)
Progress(scanned, errors) ==
    [type |-> "Progress", scanned |-> scanned, errors |-> errors]
Done(its, tot, errors) ==
    [type |-> "Done", items |-> its, total |-> tot, errors |-> errors]
Error(msg) == [type |-> "Error", message |-> msg]

(***************************************************************************)
(* State.                                                                  *)
(***************************************************************************)
VARIABLES
    \* struct App (main.rs 45-64)
    current_path, view_mode, items, total, layout_sizes, layout_has_zero,
    scan_state, scan_handle, last_error, scan_cache, confirm, click_map, up_rect,
    \* run_app: where the event loop stands, and its local `dirty`
    phase, dirty,
    \* the environment: the nodes on disk and the background scan tasks
    \* started so far
    fs, scans,
    \* history: how the last handler that ran used start_scan (call: "hit",
    \* "miss", or "none" when it did not call it) and perform_delete (delete:
    \* "ok", "failed", or "none") and invalidate_cache_for (purged: the keys
    \* it removed); and whether invalidate_cache_for has ever run
    ev, invalidated

VARIABLES
    \* one scan task in detail (SpecScan): the entries fs::read_dir yields for
    \* its root, its cancellation token, the messages it has sent, the locals
    \* of its thread, and the pool of du_sizes_parallel (job list, workers,
    \* channel of results)
    listing, cancel, sent, task, work, workers, results

scanVars == << listing, cancel, sent, task, work, workers, results >>

VARIABLES
    \* a call of a layout function (SpecLayout): its arguments `sizes` and
    \* `area`, and what treemap and grid_layout returned for them (None
    \* before the call); and a call of worst_ratio_stats on a row before and
    \* after an item is added to it (SpecWorstRatio)
    sizes, area, blocks, grid, worst

layoutVars == << sizes, area, blocks, grid, worst >>

appVars == << current_path, view_mode, items, total, layout_sizes,
              layout_has_zero, scan_state, scan_handle, last_error, scan_cache,
              confirm, click_map, up_rect, phase, dirty, fs, scans, ev,
              invalidated >>

vars == << appVars, scanVars, layoutVars >>

CacheKey(p, v) == [path |-> p, view |-> v]

ScanState(scanning, scanned, errors) ==
    [scanning |-> scanning, scanned |-> scanned, errors |-> errors]

\* The (i, item.size) pairs and the zero-size-directory flag computed from an
\* item list (update_scan, lines 173-182).
LayoutSizes(its) == [i \in 1..Len(its) |-> << i, its[i].size >>]
HasZeroDir(its) == \E i \in 1..Len(its) : its[i].size = 0 /\ its[i].kind = "Dir"

(***************************************************************************)
(* A background scan task as the orchestrator sees it (scan::start_scan):  *)
(* its arguments, its cancellation token, the channel to the ScanHandle    *)
(* (rx: the receiver still exists) and the position of its thread.         *)
(***************************************************************************)
NewScan(p, v) ==
    [path |-> p, view |-> v, cancel |-> FALSE, rx |-> TRUE, chan |-> <<>>,
     pc |-> "enumerate", items |-> <<>>,
     \* history: the terminal message the thread has sent
     term |-> "none"]

\* `let _ = tx.send(msg)`: queued while the receiver exists, lost otherwise.
Send(s, m) == IF s.rx THEN [s EXCEPT !.chan = Append(@, m)] ELSE s

\* Lines 106-108: the token of the active handle is set.
CancelActive(ss) ==
    IF IsSome(scan_handle)
    THEN [ss EXCEPT ![Unwrap(scan_handle)].cancel = TRUE]
    ELSE ss

\* Assigning `new` to self.scan_handle drops the ScanHandle it held: the
\* receiver goes and with it every message still queued.
DropHandle(ss, new) ==
    IF IsSome(scan_handle) /\ new # scan_handle
    THEN [ss EXCEPT ![Unwrap(scan_handle)].rx = FALSE,
                    ![Unwrap(scan_handle)].chan = <<>>]
    ELSE ss

\* start_scan without line 124: the handle of the superseded scan is kept.
HandleKept == scan_handle
\* What start_scan leaves in scan_handle on a cache hit (line 124).
HandleAfterHit == None

\* start_scan without the lookup of lines 113-126: every request is a miss.
NeverHit(cache, key) == FALSE
\* Whether start_scan finds the key in the cache (line 113).
CacheHit(cache, key) == key \in DOMAIN cache

(***************************************************************************)
(* App::start_scan (main.rs 105-139), called with current_path = p and     *)
(* view_mode = v as the calling handler has just set them, and with the    *)
(* cache as that handler left it.                                          *)
(***************************************************************************)
start_scan(p, v, cache, del) ==
    LET key == CacheKey(p, v)
    IN  /\ current_path' = p
        /\ view_mode' = v
        /\ scan_cache' = cache
        /\ last_error' = None
        /\ IF CacheHit(cache, key)
           THEN /\ items' = cache[key].items
                /\ total' = cache[key].total
                /\ layout_sizes' = cache[key].layout_sizes
                /\ layout_has_zero' = cache[key].layout_has_zero
                /\ scan_state' = ScanState(FALSE, Len(cache[key].items),
                                           cache[key].errors)
                /\ scan_handle' = HandleAfterHit
                /\ scans' = DropHandle(CancelActive(scans), HandleAfterHit)
                /\ ev' = [call |-> "hit", delete |-> del,
                             purged |-> DOMAIN scan_cache \ DOMAIN cache]
           ELSE /\ Len(scans) < MaxScans
                /\ items' = <<>>
                /\ total' = 0
                /\ layout_sizes' = <<>>
                /\ layout_has_zero' = FALSE
                /\ scan_state' = ScanState(TRUE, 0, 0)
                /\ scan_handle' = Some(Len(scans) + 1)
                /\ scans' = Append(DropHandle(CancelActive(scans),
                                               Some(Len(scans) + 1)),
                                    NewScan(p, v))
                /\ ev' = [call |-> "miss", delete |-> del,
                             purged |-> DOMAIN scan_cache \ DOMAIN cache]

\* A handler that does not call start_scan.
NoScan ==
    /\ ev' = [call |-> "none", delete |-> "none", purged |-> {}]
    /\ UNCHANGED << current_path, view_mode, items, total, layout_sizes,
                    layout_has_zero, scan_state, scan_handle, scan_cache, scans >>

\* invalidate_cache_for with a one-sided test: the entries at or below the
\* target go, those above it stay.
InvalidateBelow(cache, disk, path) ==
    LET target == canonicalize(disk, path)
        kept == { k \in DOMAIN cache : ~starts_with(k.path, target) }
    IN  [k \in kept |-> cache[k]]
\* App::invalidate_cache_for (main.rs 141-145): the cache without the entries
\* whose key path is a prefix of the target or has it as a prefix.
invalidate_cache_for(cache, disk, path) ==
    LET target == canonicalize(disk, path)
        kept == { k \in DOMAIN cache :
                    ~starts_with(k.path, target) /\ ~starts_with(target, k.path) }
    IN  [k \in kept |-> cache[k]]

(***************************************************************************)
(* ui (main.rs 384-396), on a terminal large enough for every block:       *)
(* render_treemap rebuilds click_map from the items on display and         *)
(* render_bottom sets up_rect when the current path has a parent.          *)
(***************************************************************************)
Draw ==
    /\ click_map' = 1..Len(items')
    /\ up_rect' = IsSome(parent(current_path'))

\* `continue`: the iteration ends without drawing.
NoDraw == UNCHANGED << click_map, up_rect >>

\* The end of one iteration of the loop of run_app.
EndIteration ==
    phase' = "update" /\ dirty' = FALSE /\ UNCHANGED << scanVars, layoutVars >>

(***************************************************************************)
(* App::update_scan (main.rs 159-216): every message queued on the active  *)
(* handle is applied in order; then try_recv reports Empty, or             *)
(* Disconnected when the task has exited.  The view is carried as a record *)
(* through the loop.                                                       *)
(***************************************************************************)
View ==
    [items |-> items, total |-> total, layout_sizes |-> layout_sizes,
     layout_has_zero |-> layout_has_zero, scan_state |-> scan_state,
     last_error |-> last_error, scan_cache |-> scan_cache, changed |-> FALSE]

\* A CachedScan that keeps the items without the layout computed from them.
CachedScanBare(its, tot, errors) ==
    [items |-> its, total |-> tot, layout_sizes |-> <<>>,
     layout_has_zero |-> FALSE, errors |-> errors]

\* The CachedScan update_scan stores on Done (lines 187-193).
CachedScan(its, tot, errors) ==
    [items |-> its, total |-> tot, layout_sizes |-> LayoutSizes(its),
     layout_has_zero |-> HasZeroDir(its), errors |-> errors]

\* HashMap::insert(key, cached).
CacheInsert(cache, key, cached) ==
    [k \in DOMAIN cache \cup {key} |-> IF k = key THEN cached ELSE cache[k]]

\* The cache after a Done has been drained (lines 183-194).
CacheOnDone(cache, key, m) ==
    CacheInsert(cache, key, CachedScan(m.items, m.total, m.errors))
\* update_scan caching an empty result for a scan that failed.
CacheEmptyOnError(cache, key, m) ==
    CacheInsert(cache, key, CachedScan(<<>>, 0, 0))
\* The cache after an Error has been drained (lines 200-204).
CacheOnError(cache, key, m) == cache

ApplyMsg(w, m, key) ==
    IF m.type = "Progress"
    THEN [w EXCEPT !.scan_state.scanned = m.scanned,
                   !.scan_state.errors = m.errors,
                   !.changed = TRUE]
    ELSE IF m.type = "Done"
    THEN [w EXCEPT !.items = m.items,
                   !.total = m.total,
                   !.layout_sizes = LayoutSizes(m.items),
                   !.layout_has_zero = HasZeroDir(m.items),
                   !.scan_cache = CacheOnDone(w.scan_cache, key, m),
                   !.scan_state = ScanState(FALSE, Len(m.items), m.errors),
                   !.changed = TRUE]
    ELSE [w EXCEPT !.last_error = Some(m.message),
                   !.scan_cache = CacheOnError(w.scan_cache, key, m),
                   !.scan_state.scanning = FALSE,
                   !.changed = TRUE]

RECURSIVE Drain(_, _, _)
Drain(w, q, key) ==
    IF q = <<>> THEN w ELSE Drain(ApplyMsg(w, Head(q), key), Tail(q), key)

\* A Disconnected arm that reports the end of the task as an error.
DisconnectedAsError(w) ==
    [w EXCEPT !.scan_state.scanning = FALSE, !.changed = TRUE,
              !.last_error = Some("Scan ended unexpectedly")]

\* Err(TryRecvError::Disconnected) (lines 207-211).
Disconnected(w) == [w EXCEPT !.scan_state.scanning = FALSE, !.changed = TRUE]

update_scan ==
    IF IsSome(scan_handle)
    THEN LET s == scans[Unwrap(scan_handle)]
             w == Drain(View, s.chan, CacheKey(current_path, view_mode))
         IN  IF s.pc = "exited" THEN Disconnected(w) ELSE w
    ELSE View

UpdateScan ==
    /\ phase = "update"
    /\ LET w == update_scan
       IN  /\ items' = w.items
           /\ total' = w.total
           /\ layout_sizes' = w.layout_sizes
           /\ layout_has_zero' = w.layout_has_zero
           /\ scan_state' = w.scan_state
           /\ last_error' = w.last_error
           /\ scan_cache' = w.scan_cache
           /\ dirty' = w.changed
    /\ scans' = IF IsSome(scan_handle)
                THEN [scans EXCEPT ![Unwrap(scan_handle)].chan = <<>>]
                ELSE scans
    /\ phase' = "poll"
    /\ ev' = [call |-> "none", delete |-> "none", purged |-> {}]
    /\ UNCHANGED << current_path, view_mode, scan_handle, confirm, click_map,
                    up_rect, fs, invalidated >>
    /\ UNCHANGED << scanVars, layoutVars >>

(***************************************************************************)
(* The handlers of run_app (main.rs 266-373), one event per iteration.     *)
(***************************************************************************)
\* App::go_up (main.rs 147-157).
go_up ==
    IF view_mode = "Files"
    THEN start_scan(current_path, "Dirs", scan_cache, "none")
    ELSE IF IsSome(parent(current_path))
         THEN start_scan(Unwrap(parent(current_path)), view_mode, scan_cache,
                         "none")
         ELSE /\ NoScan
              /\ UNCHANGED last_error

\* Backspace, 'h', Up, Left or Esc with no confirmation pending.
KeyGoUp ==
    /\ phase = "poll" /\ confirm = None
    /\ go_up
    /\ Draw /\ EndIteration
    /\ UNCHANGED << confirm, fs, invalidated >>

\* 'f': the view mode is toggled and the scan restarted.
KeyToggleView ==
    /\ phase = "poll" /\ confirm = None
    /\ start_scan(current_path,
                  IF view_mode = "Dirs" THEN "Files" ELSE "Dirs", scan_cache,
                  "none")
    /\ Draw /\ EndIteration
    /\ UNCHANGED << confirm, fs, invalidated >>

ConfirmAction(target_path, target_name, is_dir, return_path) ==
    [target_path |-> target_path, target_name |-> target_name,
     is_dir |-> is_dir, return_path |-> return_path]

\* Delete: asks to confirm the removal of the current directory.
KeyDelete ==
    /\ phase = "poll" /\ confirm = None
    /\ IF IsSome(parent(current_path))
       THEN /\ confirm' = Some(ConfirmAction(current_path, file_name(current_path),
                                             TRUE, parent(current_path)))
            /\ UNCHANGED last_error
       ELSE /\ last_error' = Some("Refusing to delete root directory")
            /\ UNCHANGED confirm
    /\ NoScan
    /\ Draw /\ EndIteration
    /\ UNCHANGED << fs, invalidated >>

\* perform_delete (main.rs 756-762): remove_dir_all for a directory,
\* remove_file for a file; either fails when the target is not there or is of
\* the other kind, and may fail for reasons the model does not see (refused).
DeleteSucceeds(disk, action, refused) ==
    /\ ~refused
    /\ action.target_path \in disk
    /\ (NodeKind(action.target_path) = "dir") = action.is_dir
perform_delete(disk, action, refused) ==
    IF DeleteSucceeds(disk, action, refused)
    THEN RemoveTree(disk, action.target_path)
    ELSE disk

\* The confirm handler without line 278: the cache goes to start_scan as is.
CacheKept(cache, disk, action) == cache
\* The cache the confirm handler hands to start_scan (line 278).
CacheAfterDelete(cache, disk, action) ==
    invalidate_cache_for(cache, disk, action.target_path)

\* 'y' or Enter while a confirmation is pending (lines 273-284).
KeyConfirmYes ==
    /\ phase = "poll" /\ IsSome(confirm)
    /\ \E refused \in BOOLEAN :
         LET action == Unwrap(confirm)
             disk == perform_delete(fs, action, refused)
             cache == CacheAfterDelete(scan_cache, disk, action)
             del == IF DeleteSucceeds(fs, action, refused) THEN "ok" ELSE "failed"
         IN  /\ fs' = disk
             /\ confirm' = None
             /\ invalidated' = TRUE
             /\ IF IsSome(action.return_path)
                THEN start_scan(Unwrap(action.return_path), "Dirs", cache, del)
                ELSE start_scan(current_path, view_mode, cache, del)
    /\ NoDraw /\ EndIteration

\* 'n' or Esc while a confirmation is pending.
KeyConfirmNo ==
    /\ phase = "poll" /\ IsSome(confirm)
    /\ confirm' = None
    /\ NoScan
    /\ NoDraw /\ EndIteration
    /\ UNCHANGED << last_error, fs, invalidated >>

\* A handler that lets the keys of go_up through while a confirmation is
\* pending.
GoUpWhileConfirming ==
    /\ phase = "poll" /\ IsSome(confirm)
    /\ go_up
    /\ NoDraw /\ EndIteration
    /\ UNCHANGED << confirm, fs, invalidated >>

\* Any key or mouse press while a confirmation is pending: ignored.
IgnoredWhileConfirming ==
    /\ phase = "poll" /\ IsSome(confirm)
    /\ NoScan
    /\ NoDraw /\ EndIteration
    /\ UNCHANGED << confirm, last_error, fs, invalidated >>

\* A mouse press on the [Up] label (lines 336-341).
MouseUp ==
    /\ phase = "poll" /\ confirm = None /\ up_rect
    /\ go_up
    /\ NoDraw /\ EndIteration
    /\ UNCHANGED << confirm, fs, invalidated >>

\* A right press on the block of click target t (lines 343-351).
MouseRight(t) ==
    /\ phase = "poll" /\ confirm = None /\ t \in click_map
    /\ IF t <= Len(items)
       THEN confirm' = Some(ConfirmAction(items[t].path, items[t].name,
                                          items[t].kind # "File", None))
       ELSE UNCHANGED confirm
    /\ NoScan
    /\ Draw /\ EndIteration
    /\ UNCHANGED << last_error, fs, invalidated >>

\* Any other press on the block of click target t (lines 352-365).
MouseLeft(t) ==
    /\ phase = "poll" /\ confirm = None /\ t \in click_map
    /\ IF t <= Len(items) /\ items[t].kind = "Dir"
       THEN start_scan(items[t].path, "Dirs", scan_cache, "none")
       ELSE IF t <= Len(items) /\ items[t].kind = "FilesAggregate"
       THEN start_scan(current_path, "Files", scan_cache, "none")
       ELSE NoScan /\ UNCHANGED last_error
    /\ Draw /\ EndIteration
    /\ UNCHANGED << confirm, fs, invalidated >>

\* No event within the poll interval, or one that no handler acts on (a key
\* without binding, a press outside every target, a resize): the frame is
\* drawn if something changed, or if the spinner of a running scan is due.
Idle ==
    /\ phase = "poll"
    /\ NoScan
    /\ \E redraw \in BOOLEAN :
         IF dirty \/ redraw THEN Draw ELSE NoDraw
    /\ EndIteration
    /\ UNCHANGED << confirm, last_error, fs, invalidated >>

(***************************************************************************)
(* The thread of a background scan (scan.rs 52-60), in two steps: the      *)
(* enumeration with the sizing of the subdirectories (scan_dir_approx      *)
(* 65-182, scan_files_direct 191-254), then the total, the sort and Done   *)
(* (184-188, 256-260).                                                     *)
(***************************************************************************)
Exit(s, term) == [s EXCEPT !.pc = "exited", !.term = term, !.items = <<>>]

\* A step of a scan thread touches nothing of the orchestrator.
OnlyScans ==
    UNCHANGED << current_path, view_mode, items, total, layout_sizes,
                 layout_has_zero, scan_state, scan_handle, last_error,
                 scan_cache, confirm, click_map, up_rect, phase, dirty, fs, ev,
                 invalidated, scanVars, layoutVars >>

\* The thread returns Err: start_scan sends ScanMsg::Error (lines 57-59).
\* fs::read_dir fails when the root is no directory that exists, and may
\* fail for one that is (permission denied, an I/O error).
ScanFails(i) ==
    LET s == scans[i]
    IN  /\ OnlyScans
        /\ s.pc = "enumerate"
        /\ \/ /\ is_proc_path(s.path)
              /\ scans' = [scans EXCEPT
                     ![i] = Exit(Send(s, Error("/proc is excluded")), "Error")]
           \/ /\ ~is_proc_path(s.path)
              /\ scans' = [scans EXCEPT
                     ![i] = Exit(Send(s, Error("Failed to read dir")), "Error")]

\* The token is seen set at an entry of the directory, or before the worker
\* pool is started: the thread returns Ok(()) and sends nothing.
ScanAbandons(i) ==
    LET s == scans[i]
    IN  /\ OnlyScans
        /\ s.pc = "enumerate"
        /\ ~is_proc_path(s.path) /\ Readable(fs, s.path)
        /\ s.cancel
        /\ read_dir(fs, s.path) # <<>>
        /\ scans' = [scans EXCEPT ![i] = Exit(s, "none")]

\* The enumeration runs to its end.  In the Dirs view the subdirectories are
\* sized: each by du, or left at 0 when du fails for it or when the workers
\* saw the token set and stopped before it; a Progress follows when there is
\* at least one subdirectory (line 181).
ScanEnumerates(i) ==
    LET s == scans[i]
        dirs == DirEntries(read_dir(fs, s.path))
        dirset == { dirs[k] : k \in 1..Len(dirs) }
    IN  /\ OnlyScans
        /\ s.pc = "enumerate"
        /\ ~is_proc_path(s.path) /\ Readable(fs, s.path)
        /\ IF s.view = "Dirs"
           THEN \E zeroed \in SUBSET dirset :
                  LET t == [s EXCEPT !.pc = "finish",
                                     !.items = scan_dir_items(fs, s.path, zeroed)]
                  IN  scans' = [scans EXCEPT ![i] =
                          IF dirs # <<>>
                          THEN Send(t, Progress(ScannedCount(fs, s.path, s.view), 0))
                          ELSE t]
           ELSE scans' = [scans EXCEPT ![i] =
                    [s EXCEPT !.pc = "finish",
                              !.items = scan_files_items(fs, s.path)]]

\* A Done whose total was taken before the worker pool filled in the sizes of
\* the subdirectories.
DoneTotalBeforeSizes(its, errors) ==
    Done(SortDesc(its), SumSizes(SelectSeq(its, LAMBDA it : it.kind # "Dir")),
         errors)
\* The Done a scan sends for the items it collected (lines 184-187, 256-259).
DoneMsg(its, errors) == Done(SortDesc(its), SumSizes(its), errors)

\* total, sort, Done.  The sum of the sizes may exceed u64: a build with
\* overflow checks (the dev profile) panics there and the thread ends without
\* a message, one without them (the release profile) wraps around.
ScanFinishes(i) ==
    LET s == scans[i]
    IN  /\ OnlyScans
        /\ s.pc = "finish"
        /\ \E overflow_checks \in BOOLEAN :
             scans' = [scans EXCEPT ![i] =
                 IF SumOverflows(s.items) /\ overflow_checks
                 THEN Exit(s, "none")
                 ELSE Exit(Send(s, DoneMsg(s.items, 0)), "Done")]

(***************************************************************************)
(* run_app up to its loop (main.rs 250-257): the start path is             *)
(* canonicalized, App::new, the first start_scan and the first frame.      *)
(***************************************************************************)
StartPaths == { DirA, LinkL, ProcRoot }

\* The task of SpecScan and the call of SpecLayout are not part of this
\* machine.
NoTask ==
    /\ listing = <<>>
    /\ cancel = FALSE
    /\ sent = <<>>
    /\ task = [pc |-> "none"]
    /\ work = <<>>
    /\ workers = <<>>
    /\ results = <<>>
    /\ sizes = <<>>
    /\ area = [x |-> 0, y |-> 0, width |-> 0, height |-> 0]
    /\ blocks = None
    /\ grid = None
    /\ worst = None

Init ==
    /\ fs = Removable
    /\ \E start_path \in StartPaths : current_path = canonicalize(fs, start_path)
    /\ view_mode = "Dirs"
    /\ items = <<>>
    /\ total = 0
    /\ layout_sizes = <<>>
    /\ layout_has_zero = FALSE
    /\ scan_state = ScanState(TRUE, 0, 0)
    /\ scan_handle = Some(1)
    /\ scans = << NewScan(current_path, view_mode) >>
    /\ last_error = None
    /\ scan_cache = << >>
    /\ confirm = None
    /\ click_map = {}
    /\ up_rect = IsSome(parent(current_path))
    /\ phase = "update"
    /\ dirty = FALSE
    /\ ev = [call |-> "miss", delete |-> "none", purged |-> {}]
    /\ invalidated = FALSE
    /\ NoTask

Next ==
    \/ UpdateScan
    \/ KeyGoUp
    \/ KeyToggleView
    \/ KeyDelete
    \/ KeyConfirmYes
    \/ KeyConfirmNo
    \/ IgnoredWhileConfirming
    \/ MouseUp
    \/ \E t \in click_map : MouseRight(t)
    \/ \E t \in click_map : MouseLeft(t)
    \/ Idle
    \/ \E i \in 1..Len(scans) : ScanFails(i)
    \/ \E i \in 1..Len(scans) : ScanAbandons(i)
    \/ \E i \in 1..Len(scans) : ScanEnumerates(i)
    \/ \E i \in 1..Len(scans) : ScanFinishes(i)

Spec == Init /\ [][Next]_vars

(***************************************************************************)
(* Properties of the orchestrator, checked under Spec.                     *)
(***************************************************************************)
KeyOf(s) == CacheKey(s.path, s.view)
CurrentKey == CacheKey(current_path, view_mode)

\* A step of a handler in which App::start_scan is called.
CallsStartScan == phase = "poll" /\ ev'.call # "none"

\* C1 as stated: as long as no invalidation has run, no two background scan
\* tasks have been started for the same (path, view mode).
C1_OneTaskPerKey ==
    ~invalidated =>
        \A i, j \in 1..Len(scans) : KeyOf(scans[i]) = KeyOf(scans[j]) => i = j

\* C1 amended: App::start_scan starts a background task only when the cache
\* holds no entry for the key, and a request for a key the cache holds starts
\* none and shows the items and total of the entry; a request for a key whose
\* scan is in flight, failed or was superseded is not deduplicated.
C1_TaskOnlyOnMiss ==
    [][ CallsStartScan =>
          LET key == CacheKey(current_path', view_mode')
          IN  /\ Len(scans') > Len(scans) => key \notin DOMAIN scan_cache'
              /\ key \in DOMAIN scan_cache' =>
                    /\ scans' = DropHandle(CancelActive(scans), None)
                    /\ items' = scan_cache'[key].items
                    /\ total' = scan_cache'[key].total ]_vars

\* A repeated request was served from the cache: the key on display was
\* scanned by an earlier task, whose Done was drained, and a later request
\* for it found the entry.
C1_Witness ==
    /\ ev.call = "hit"
    /\ ~invalidated
    /\ Len(scans) >= 2
    /\ \E i \in 1..Len(scans) : KeyOf(scans[i]) = CurrentKey /\ scans[i].term = "Done"

\* C2: a start_scan that finds the key cached adopts the entry: items, total,
\* layout weights and zero-size flag are those of the entry, scanning is
\* false, last_error is None, no task is spawned, no handle is active, and
\* the cache is as the caller handed it over.
C2_HitAdoptsEntry ==
    [][ CallsStartScan =>
          LET key == CacheKey(current_path', view_mode')
          IN  /\ key \in DOMAIN scan_cache' =>
                    /\ items' = scan_cache'[key].items
                    /\ total' = scan_cache'[key].total
                    /\ layout_sizes' = scan_cache'[key].layout_sizes
                    /\ layout_has_zero' = scan_cache'[key].layout_has_zero
                    /\ ~scan_state'.scanning
                    /\ last_error' = None
                    /\ Len(scans') = Len(scans)
                    /\ scan_handle' = None
              /\ \A k \in DOMAIN scan_cache' :
                    k \in DOMAIN scan_cache /\ scan_cache'[k] = scan_cache[k]
              /\ confirm = None => scan_cache' = scan_cache ]_vars

\* A hit that superseded a scan still active and replaced a view that showed
\* an error, with a non-empty entry.
C2_Witness ==
    /\ ev.call = "hit"
    /\ items # <<>>
    /\ scan_handle = None
    /\ \E i \in 1..Len(scans) : scans[i].cancel /\ scans[i].pc # "exited"

\* A step of the confirm handler on 'y' or Enter.
ConfirmedDelete == phase = "poll" /\ IsSome(confirm) /\ ev'.call # "none"

\* C4: after a confirmed delete, whether or not the removal succeeded, the
\* cache handed to the rescan holds no entry whose key path is an ancestor
\* of, equal to or a descendant of the deleted path, and the rescan, whose
\* path is such a path, is not served from the cache: a new task is started.
C4_RescanAfterDeleteIsFresh ==
    [][ ConfirmedDelete =>
          LET P == Unwrap(confirm).target_path
          IN  /\ \A k \in DOMAIN scan_cache' : ~Related(k.path, P)
              /\ Related(current_path', P)
              /\ ev'.call = "miss"
              /\ Len(scans') = Len(scans) + 1
              /\ scan_handle' = Some(Len(scans'))
              /\ KeyOf(scans'[Len(scans')]) = CacheKey(current_path', view_mode')
              /\ scan_state'.scanning /\ items' = <<>> ]_vars

\* A confirmed delete that failed, after which the entry of the directory to
\* rescan was purged and a new task started for it.
C4_Witness ==
    /\ ev.delete = "failed"
    /\ ev.call = "miss"
    /\ CurrentKey \in ev.purged
    /\ scan_handle = Some(Len(scans))

\* What update_scan may change.
Observed == << items, total, layout_sizes, layout_has_zero, scan_state,
               last_error, scan_cache >>

\* C5: a scan whose handle start_scan has superseded (its token is set) is
\* never the active handle again, its receiver is gone and none of its
\* messages is queued for anyone; and whenever update_scan changes items,
\* total, the scan counters, last_error or the cache, it does so from the
\* active handle, whose scan is the one of the key on display and has not
\* been superseded.
C5_SupersededNeverRead ==
    /\ [](\A i \in 1..Len(scans) :
            scans[i].cancel =>
                scan_handle # Some(i) /\ ~scans[i].rx /\ scans[i].chan = <<>>)
    /\ [][ (phase = "update" /\ Observed' # Observed) =>
             /\ IsSome(scan_handle)
             /\ ~scans[Unwrap(scan_handle)].cancel
             /\ KeyOf(scans[Unwrap(scan_handle)]) = CurrentKey
             /\ \/ scans[Unwrap(scan_handle)].chan # <<>>
                \/ scans[Unwrap(scan_handle)].pc = "exited" ]_vars

\* A superseded scan ran to its end and sent its Done, which nobody read: no
\* invalidation has run and yet the cache has no entry for its key.
C5_Witness ==
    /\ ~invalidated
    /\ \E i \in 1..Len(scans) :
         /\ scans[i].cancel
         /\ scans[i].term = "Done"
         /\ KeyOf(scans[i]) \notin DOMAIN scan_cache

\* C8: an entry enters the cache only when update_scan drains a Done from
\* the active handle, under the key on display and with the content of that
\* Done; an entry in the cache keeps its value for as long as it is there;
\* an entry leaves only through the invalidate_cache_for of a confirmed
\* delete, which removes keys related to the deleted path.
C8_CacheLifecycle ==
    [][ /\ \A k \in DOMAIN scan_cache' \ DOMAIN scan_cache :
              /\ phase = "update"
              /\ IsSome(scan_handle)
              /\ k = CurrentKey
              /\ \E n \in 1..Len(scans[Unwrap(scan_handle)].chan) :
                    LET m == scans[Unwrap(scan_handle)].chan[n]
                    IN  /\ m.type = "Done"
                        /\ scan_cache'[k].items = m.items
                        /\ scan_cache'[k].total = m.total
                        /\ scan_cache'[k].errors = m.errors
        /\ \A k \in DOMAIN scan_cache' \cap DOMAIN scan_cache :
              scan_cache'[k] = scan_cache[k]
        /\ \A k \in DOMAIN scan_cache \ DOMAIN scan_cache' :
              /\ ConfirmedDelete
              /\ Related(k.path, Unwrap(confirm).target_path) ]_vars

\* update_scan has drained the Error of the active scan: the view shows the
\* message, scanning is over, and the cache has no entry for the key.
C8_Witness ==
    /\ IsSome(scan_handle)
    /\ scans[Unwrap(scan_handle)].term = "Error"
    /\ scans[Unwrap(scan_handle)].chan = <<>>
    /\ IsSome(last_error)
    /\ CurrentKey \notin DOMAIN scan_cache

\* The sum of the sizes of a list of items in u64 arithmetic.
RECURSIVE U64Sum(_)
U64Sum(its) ==
    IF its = <<>> THEN 0 ELSE (Head(its).size + U64Sum(Tail(its))) % (U64Max + 1)

\* C9: in the view of the orchestrator, in every cache entry and in every
\* Done message in flight, total is the sum of the sizes of the items of that
\* same result, in u64 arithmetic.
C9_TotalIsSumOfSizes ==
    /\ total = U64Sum(items)
    /\ \A k \in DOMAIN scan_cache : scan_cache[k].total = U64Sum(scan_cache[k].items)
    /\ \A i \in 1..Len(scans) : \A n \in 1..Len(scans[i].chan) :
          scans[i].chan[n].type = "Done" =>
              scans[i].chan[n].total = U64Sum(scans[i].chan[n].items)

\* A result with several items of positive size is cached while the Done of
\* another scan, with a positive total, waits to be drained.
C9_Witness ==
    /\ \E k \in DOMAIN scan_cache :
          /\ Len(scan_cache[k].items) >= 2
          /\ scan_cache[k].items[2].size > 0
    /\ \E i \in 1..Len(scans) : \E n \in 1..Len(scans[i].chan) :
          scans[i].chan[n].type = "Done" /\ scans[i].chan[n].total > 0

\* C19: when a confirmed delete has failed, last_error holds the message of
\* the failure once the handler of the keypress is through, invalidation and
\* start_scan included.
C19_DeleteFailureSurfaced ==
    ev.delete = "failed" => last_error = Some("Delete failed")

\* C20: a scan whose root cannot be opened ends with an Error and never
\* sends a Done; and the update_scan that drains the Error of the active
\* scan records its message in last_error, ends the scanning, leaves the
\* view without items and leaves the cache as it was, with no entry added
\* and none changed.
C20_ScanFaultEndsThatScanOnly ==
    /\ [](\A i \in 1..Len(scans) :
            scans[i].term = "Error"
            => /\ scans[i].pc = "exited"
               /\ \A n \in 1..Len(scans[i].chan) : scans[i].chan[n].type # "Done")
    /\ [][\A i \in 1..Len(scans) :
            (/\ scans[i].pc = "enumerate"
             /\ ~starts_with(scans[i].path, ProcRoot)
             /\ ~Readable(fs, scans[i].path)
             /\ Len(scans') = Len(scans)
             /\ scans'[i].pc # "enumerate")
            => /\ scans'[i].term = "Error"
               /\ scans[i].rx
                  => scans'[i].chan = Append(scans[i].chan,
                                             Error("Failed to read dir"))]_vars
    /\ [][(/\ phase = "update" /\ phase' = "poll"
           /\ IsSome(scan_handle))
          => \A n \in 1..Len(scans[Unwrap(scan_handle)].chan) :
               LET m == scans[Unwrap(scan_handle)].chan[n]
               IN  m.type = "Error"
                   => /\ last_error' = Some(m.message)
                      /\ ~scan_state'.scanning
                      /\ items' = <<>> /\ total' = 0 /\ layout_sizes' = <<>>
                      /\ scan_cache' = scan_cache]_vars

\* The Error of a scan of a directory that could not be opened has been
\* drained while the cache held an entry.
C20_Witness ==
    /\ phase = "poll"
    /\ IsSome(scan_handle)
    /\ scans[Unwrap(scan_handle)].term = "Error"
    /\ scans[Unwrap(scan_handle)].chan = <<>>
    /\ last_error = Some("Failed to read dir")
    /\ ~scan_state.scanning
    /\ items = <<>>
    /\ DOMAIN scan_cache # {}
    /\ CurrentKey \notin DOMAIN scan_cache

\* C21: when update_scan finds the channel of the active handle
\* disconnected and the task has left no terminal message (the queue holds
\* Progress messages at most), scanning becomes false, the step counts as a
\* change, and last_error, items, total, the layout data, the cache and the
\* handle are left as they were.
C21_DisconnectIsQuiet ==
    [][(/\ phase = "update" /\ phase' = "poll"
        /\ IsSome(scan_handle)
        /\ scans[Unwrap(scan_handle)].pc = "exited"
        /\ \A n \in 1..Len(scans[Unwrap(scan_handle)].chan) :
              scans[Unwrap(scan_handle)].chan[n].type = "Progress")
       => /\ ~scan_state'.scanning
          /\ dirty'
          /\ last_error' = last_error
          /\ items' = items
          /\ total' = total
          /\ layout_sizes' = layout_sizes
          /\ layout_has_zero' = layout_has_zero
          /\ scan_cache' = scan_cache
          /\ scan_handle' = scan_handle]_vars

\* The task of the active handle ended without a terminal message (its total
\* overflowed in a build with overflow checks) and update_scan has seen the
\* channel disconnected: scanning is over, no error is shown, no item either.
C21_Witness ==
    /\ phase = "poll"
    /\ IsSome(scan_handle)
    /\ scans[Unwrap(scan_handle)].pc = "exited"
    /\ scans[Unwrap(scan_handle)].term = "none"
    /\ scans[Unwrap(scan_handle)].chan = <<>>
    /\ ~scan_state.scanning
    /\ scan_state.scanned > 0
    /\ last_error = None
    /\ items = <<>>
    /\ CurrentKey \notin DOMAIN scan_cache

\* What a scan of directory p in view v may put into its Done: in the Dirs
\* view Dir items for children of p and one files aggregate for p itself, in
\* the Files view File items for children of p.
ResultOf(its, p, v) ==
    /\ \A n \in 1..Len(its) :
         \/ /\ its[n].kind = "Dir" /\ v = "Dirs"
            /\ parent(its[n].path) = Some(p)
         \/ /\ its[n].kind = "FilesAggregate" /\ v = "Dirs"
            /\ its[n].path = p
         \/ /\ its[n].kind = "File" /\ v = "Files"
            /\ parent(its[n].path) = Some(p)
    /\ v = "Dirs" =>
         Cardinality({ n \in 1..Len(its) : its[n].kind = "FilesAggregate" }) = 1

\* C22: whenever update_scan drains a Done, the key (current_path,
\* view_mode) under which it stores the result is the (path, view) the scan
\* of the active handle was started with, and the entry stored is that Done;
\* so every cache entry holds items of a scan of its key's path in its key's
\* mode, and a scan of that key has sent a Done.
C22_DoneStoredUnderItsKey ==
    /\ [][(/\ phase = "update" /\ phase' = "poll"
           /\ IsSome(scan_handle))
          => \A n \in 1..Len(scans[Unwrap(scan_handle)].chan) :
               LET s == scans[Unwrap(scan_handle)]
                   m == s.chan[n]
               IN  m.type = "Done"
                   => /\ CurrentKey = CacheKey(s.path, s.view)
                      /\ CurrentKey \in DOMAIN scan_cache'
                      /\ scan_cache'[CurrentKey].items = m.items
                      /\ scan_cache'[CurrentKey].total = m.total
                      /\ ResultOf(m.items, s.path, s.view)]_vars
    /\ [](\A k \in DOMAIN scan_cache :
            /\ ResultOf(scan_cache[k].items, k.path, k.view)
            /\ \E i \in 1..Len(scans) :
                  /\ CacheKey(scans[i].path, scans[i].view) = k
                  /\ scans[i].term = "Done")

\* After navigating into a subdirectory and toggling the view, the cache
\* holds results for two paths and both modes, each under its own key, and
\* the last Done drained was that of the file listing.
C22_Witness ==
    /\ phase = "poll"
    /\ CacheKey(DirA, "Dirs") \in DOMAIN scan_cache
    /\ CacheKey(DirC, "Dirs") \in DOMAIN scan_cache
    /\ CacheKey(DirC, "Files") \in DOMAIN scan_cache
    /\ CurrentKey = CacheKey(DirC, "Files")
    /\ Len(items) = 1 /\ items[1].kind = "File"
    /\ Len(scan_cache[CacheKey(DirA, "Dirs")].items) = 3

\* C32: in every state of the orchestrator layout_sizes is the list of the
\* pairs (i, items[i].size) over the indices of items, layout_has_zero is
\* true exactly when some item is a Dir of size 0, and while scanning is
\* true there is an active scan handle (its receiver exists); so it is
\* after a cache hit is adopted, after the view is cleared for a new scan
\* and after Progress, Done, Error or a disconnection has been drained.
C32_LiveViewConsistent ==
    /\ Len(layout_sizes) = Len(items)
    /\ \A i \in 1..Len(items) : layout_sizes[i] = << i, items[i].size >>
    /\ layout_has_zero
         <=> \E i \in 1..Len(items) : items[i].kind = "Dir" /\ items[i].size = 0
    /\ scan_state.scanning
         => IsSome(scan_handle) /\ scans[Unwrap(scan_handle)].rx

\* A cache hit has just been adopted for a directory one of whose
\* subdirectories has size 0: the items are back with their layout and the
\* flag, no scan is running and none is held.
C32_Witness ==
    /\ ev.call = "hit"
    /\ Len(items) >= 2
    /\ layout_has_zero
    /\ \E i \in 1..Len(items) : items[i].kind = "Dir" /\ items[i].size = 0
    /\ layout_sizes = [i \in 1..Len(items) |-> << i, items[i].size >>]
    /\ ~scan_state.scanning /\ scan_handle = None

\* A step of the event loop that handles an event (or the lack of one)
\* and ends the iteration, as opposed to a step of a scan thread.
Handled == phase = "poll" /\ phase' = "update"

\* What a handler leaves alone when it neither deletes nor navigates.
Untouched ==
    UNCHANGED << fs, scan_cache, scans, scan_handle, scan_state, current_path,
                 view_mode, items, total, layout_sizes, layout_has_zero,
                 last_error >>

\* C33: the disk changes only in the step that handles 'y' or Enter while a
\* confirmation is pending, and what goes is the target of that
\* confirmation and nothing else; every other event handled while a
\* confirmation is pending deletes nothing, leaves cache, scans, path and
\* view mode as they are and starts no scan, 'n' or Esc clearing the
\* confirmation and any other key or mouse press keeping it; and a
\* confirmation made by the Delete key (the one with a return path) is
\* made only where the current path has a parent, for the current path.
C33_DeleteOnlyOnConfirm ==
    /\ [][fs' # fs
            => /\ Handled /\ IsSome(confirm)
               /\ confirm' = None
               /\ ev'.delete # "none"
               /\ fs' \subseteq fs
               /\ \A n \in fs \ fs' :
                    starts_with(n, Unwrap(confirm).target_path)]_vars
    /\ [][(Handled /\ IsSome(confirm) /\ ev'.delete = "none")
            => /\ Untouched
               /\ ev'.call = "none"
               /\ confirm' \in { None, confirm }]_vars
    /\ [][(Handled /\ IsSome(confirm) /\ ev'.delete # "none")
            => /\ confirm' = None
               /\ ev'.call # "none"]_vars
    /\ [][(confirm = None /\ IsSome(confirm') /\ IsSome(Unwrap(confirm').return_path))
            => /\ IsSome(parent(current_path))
               /\ Unwrap(confirm').target_path = current_path
               /\ Unwrap(confirm').return_path = parent(current_path)
               /\ Untouched]_vars
    /\ [][(Handled /\ confirm = None /\ parent(current_path) = None
            /\ IsSome(confirm'))
            => Unwrap(confirm').return_path = None]_vars

\* The deletion of a subdirectory has just been confirmed with 'y' and
\* carried out: it is gone with what it held, its siblings are still there,
\* and no confirmation is pending.
C33_Witness ==
    /\ ev.delete = "ok"
    /\ confirm = None
    /\ fs = Removable \ { DirC, FileH }
    /\ current_path = DirA

\* C34: a confirmation made by a right press on a displayed item (the one
\* without a return path), whatever the kind of the item, Dir, File or
\* FilesAggregate, has for target a single entry of the current directory:
\* a path strictly beneath the current path, never the current directory
\* itself nor an ancestor of it.
C34_RightClickTargetsChild ==
    (IsSome(confirm) /\ Unwrap(confirm).return_path = None)
    => /\ IsChild(Unwrap(confirm).target_path, current_path)
       /\ Unwrap(confirm).target_path # current_path
       /\ ~IsAncestorOrSelf(Unwrap(confirm).target_path, current_path)

(***************************************************************************)
(* SpecInvalidate: App::invalidate_cache_for as the confirm handler calls  *)
(* it (main.rs 278), from every cache over the directories of the model,   *)
(* every target path and the disk before or after the removal.             *)
(***************************************************************************)
CachePaths == { Root, DirA, DirB, DirC }
CacheKeys == { CacheKey(p, v) : p \in CachePaths, v \in ViewModes }
TargetPaths == { Root, ProcRoot, LinkL, DirA, DirB, DirC, FileF, FileH }

\* The entry a completed scan of key k leaves in the cache.
EntryFor(k) ==
    LET m == DoneMsg(IF k.view = "Dirs"
                     THEN scan_dir_items(Removable, k.path, {})
                     ELSE scan_files_items(Removable, k.path), 0)
    IN  CachedScan(m.items, m.total, m.errors)

InitInvalidate ==
    /\ \E keys \in SUBSET CacheKeys : scan_cache = [k \in keys |-> EntryFor(k)]
    /\ \E target \in TargetPaths :
         /\ confirm = Some(ConfirmAction(target, file_name(target),
                                         NodeKind(target) # "file", None))
         /\ fs \in { Removable, RemoveTree(Removable, target) }
    /\ current_path = Root
    /\ view_mode = "Dirs"
    /\ items = <<>>
    /\ total = 0
    /\ layout_sizes = <<>>
    /\ layout_has_zero = FALSE
    /\ scan_state = ScanState(FALSE, 0, 0)
    /\ scan_handle = None
    /\ scans = <<>>
    /\ last_error = None
    /\ click_map = {}
    /\ up_rect = FALSE
    /\ phase = "poll"
    /\ dirty = FALSE
    /\ ev = [call |-> "none", delete |-> "none", purged |-> {}]
    /\ invalidated = FALSE
    /\ NoTask

Invalidate ==
    /\ phase = "poll" /\ IsSome(confirm)
    /\ scan_cache' = invalidate_cache_for(scan_cache, fs, Unwrap(confirm).target_path)
    /\ invalidated' = TRUE
    /\ ev' = [ev EXCEPT !.purged = DOMAIN scan_cache \ DOMAIN scan_cache']
    /\ phase' = "update"
    /\ UNCHANGED << current_path, view_mode, items, total, layout_sizes,
                    layout_has_zero, scan_state, scan_handle, last_error,
                    confirm, click_map, up_rect, dirty, fs, scans, scanVars,
                    layoutVars >>

NextInvalidate == Invalidate

SpecInvalidate == InitInvalidate /\ [][NextInvalidate]_vars

\* A path none of whose components is a symbolic link: its own canonical form.
IsCanonical(p) == \A n \in 1..Len(p) : SubSeq(p, 1, n) # LinkL

\* C3: invalidate_cache_for(P) removes exactly the entries, of either view
\* mode, whose key path is an ancestor of P, P itself or a descendant of P,
\* and leaves every other entry with the value it had.
C3_InvalidateExactlyRelated ==
    [][ LET P == Unwrap(confirm).target_path
        IN  /\ IsCanonical(P) =>
                  DOMAIN scan_cache' =
                      { k \in DOMAIN scan_cache : ~Related(k.path, P) }
            /\ \A k \in DOMAIN scan_cache' :
                  k \in DOMAIN scan_cache /\ scan_cache'[k] = scan_cache[k]
      ]_vars

\* The example of the claim: after invalidating /a/b, of the entries for /a,
\* /a/b and /a/c only those of /a/c are left, in both view modes.
C3_Witness ==
    /\ invalidated
    /\ Unwrap(confirm).target_path = DirB
    /\ ev.purged = { CacheKey(p, v) : p \in { DirA, DirB }, v \in ViewModes }
    /\ DOMAIN scan_cache = { CacheKey(DirC, v) : v \in ViewModes }

(***************************************************************************)
(* SpecScan: one scan task of scan.rs in detail.  The thread of start_scan *)
(* runs scan_dir_approx or scan_files_direct entry by entry; the workers   *)
(* of du_sizes_parallel run concurrently with each other and with the      *)
(* collecting thread; whoever holds the handle may set the token at any    *)
(* moment.  The receiver of the handle is kept, so `sent` is everything    *)
(* the scan sends.                                                         *)
(***************************************************************************)
\* Entries in the directory under scan.
MaxEntries == 2
\* The pool size min(available_parallelism, 8) ranges over 1..MaxWorkers.
MaxWorkers == 2
\* The model's stand-in for the 2000 of `scanned % 2000 == 0`.
ProgressEvery == 2

\* What read_dir may yield: name, what the entry turns out to be, the length
\* its metadata reports, and what du reports for it (None: du fails; Never:
\* the du process does not come back).
\* "unreadable" is an Err entry, "notype" one whose file_type fails, "nometa"
\* a regular file whose metadata fails, "other" a socket, FIFO or device.
Entry(name, kind, len, du) == [name |-> name, kind |-> kind, len |-> len, du |-> du]
Never == << -1 >>
EntryPool ==
    << Entry("b", "dir", 0, Some(U64Max)),
       Entry("f", "file", 1, None),
       Entry("l", "symlink", 1, None),
       Entry("proc", "dir", 0, Some(1)),
       Entry("z", "dir", 0, Never),
       Entry("c", "dir", 0, Some(1)),
       Entry("d", "dir", 0, None),
       Entry("u", "unreadable", 0, None),
       Entry("t", "notype", 0, None),
       Entry("m", "nometa", 0, None),
       Entry("s", "other", 1, None),
       Entry("h", "file", U64Max, None) >>

\* The entries of EntryPool with index in S, in the order of the pool.
RECURSIVE Listing(_, _)
Listing(S, i) ==
    IF i > Len(EntryPool) THEN <<>>
    ELSE (IF i \in S THEN << EntryPool[i] >> ELSE <<>>) \o Listing(S, i + 1)

\* The roots a scan may be given: "/", a directory, /proc, a path beneath
\* /proc, a path that is gone.
ScanRoots == { Root, DirA, ProcRoot, join(ProcRoot, "1"), << "gone" >> }

InitScan ==
    /\ \E S \in SUBSET (1..Len(EntryPool)) :
         /\ Cardinality(S) <= MaxEntries
         /\ \E path \in ScanRoots : \E view \in ViewModes :
              /\ listing = IF Readable(Removable, path) \/ is_proc_path(path)
                           THEN Listing(S, 1) ELSE <<>>
              /\ ~(Readable(Removable, path) \/ is_proc_path(path)) => S = {}
              /\ task = [path |-> path, view |-> view, pc |-> "start", i |-> 1,
                         items |-> <<>>, dir_names |-> << >>, files_total |-> 0,
                         files_count |-> 0, scanned |-> 0, errors |-> 0,
                         out |-> <<>>]
    /\ cancel = FALSE
    /\ sent = <<>>
    /\ work = <<>>
    /\ workers = <<>>
    /\ results = <<>>
    /\ sizes = <<>>
    /\ area = [x |-> 0, y |-> 0, width |-> 0, height |-> 0]
    /\ blocks = None
    /\ grid = None
    /\ worst = None
    /\ fs = Removable
    /\ current_path = Root
    /\ view_mode = "Dirs"
    /\ items = <<>>
    /\ total = 0
    /\ layout_sizes = <<>>
    /\ layout_has_zero = FALSE
    /\ scan_state = ScanState(FALSE, 0, 0)
    /\ scan_handle = None
    /\ scans = <<>>
    /\ last_error = None
    /\ scan_cache = << >>
    /\ confirm = None
    /\ click_map = {}
    /\ up_rect = FALSE
    /\ phase = "poll"
    /\ dirty = FALSE
    /\ ev = [call |-> "none", delete |-> "none", purged |-> {}]
    /\ invalidated = FALSE

\* A step of the task touches nothing of the orchestrator.
OnlyTask == UNCHANGED << appVars, listing, layoutVars >>

\* tx.send on the channel of the handle.
SendMsg(m) == sent' = Append(sent, m)

\* The thread has ended: Ok after Done, Ok on cancellation, Err, or a panic.
Ended == { "returned", "abandoned", "failed", "panicked" }

\* scan_dir_approx 66-75 / scan_files_direct 192-201: /proc is refused and
\* read_dir may fail; start_scan 57-59 turns the Err into ScanMsg::Error.
ThreadStart ==
    /\ task.pc = "start"
    /\ IF is_proc_path(task.path)
       THEN /\ SendMsg(Error("/proc is excluded"))
            /\ task' = [task EXCEPT !.pc = "failed"]
       ELSE IF ~Readable(fs, task.path)
       THEN /\ SendMsg(Error("Failed to read dir"))
            /\ task' = [task EXCEPT !.pc = "failed"]
       ELSE /\ task' = [task EXCEPT !.pc = "loop"]
            /\ UNCHANGED sent
    /\ UNCHANGED << cancel, work, workers, results >>
    /\ OnlyTask

\* `scanned += 1` and the Progress that follows at a multiple of the period.
Counted(t) ==
    /\ task' = [t EXCEPT !.scanned = @ + 1, !.i = @ + 1]
    /\ IF (t.scanned + 1) % ProgressEvery = 0
       THEN SendMsg(Progress(t.scanned + 1, t.errors))
       ELSE UNCHANGED sent

\* A skip that leaves the error counter alone.
SkippedUncounted(n) ==
    /\ task' = [task EXCEPT !.i = @ + 1]
    /\ UNCHANGED sent

\* An entry that is skipped, with `errors += n`.
Skipped(n) ==
    /\ task' = [task EXCEPT !.errors = @ + n, !.i = @ + 1]
    /\ UNCHANGED sent

\* A FileType for which is_symlink() never answers true.
never_symlink(e) == FALSE

\* file_type.is_symlink() (lines 113, 232).
is_symlink(e) == e.kind = "symlink"

\* The body of the loop of scan_dir_approx for entry e (lines 85-145).
DirsEntry(e) ==
    LET child_path == join(canonicalize(fs, task.path), e.name)
    IN  IF e.kind = "unreadable" THEN Skipped(1)
        ELSE IF is_proc_path(child_path) THEN Skipped(0)
        ELSE IF e.kind = "notype" THEN Skipped(1)
        ELSE IF is_symlink(e) \/ e.kind = "other" THEN Skipped(0)
        ELSE IF e.kind = "file"
        THEN Counted([task EXCEPT
                 !.files_total = saturating_add(@, e.len),
                 !.files_count = @ + 1])
        ELSE IF e.kind = "nometa"
        THEN Counted([task EXCEPT !.errors = @ + 1, !.files_count = @ + 1])
        ELSE Counted([task EXCEPT
                 !.items = Append(@, Item(e.name, child_path, 0, "Dir", 0)),
                 !.dir_names = (child_path :> (Len(task.items) + 1)) @@ @])

\* The body of the loop of scan_files_direct for entry e (lines 207-253).
FilesEntry(e) ==
    LET child_path == join(canonicalize(fs, task.path), e.name)
    IN  IF e.kind = "unreadable" THEN Skipped(1)
        ELSE IF is_proc_path(child_path) THEN Skipped(0)
        ELSE IF e.kind = "notype" THEN Skipped(1)
        ELSE IF is_symlink(e) \/ e.kind = "dir" THEN Skipped(0)
        ELSE IF e.kind = "nometa"
        THEN Counted([task EXCEPT
                 !.errors = @ + 1,
                 !.items = Append(@, Item(e.name, child_path, 0, "File", 0))])
        ELSE Counted([task EXCEPT
                 !.items = Append(@, Item(e.name, child_path, e.len, "File", 0))])

\* One turn of `for entry in read_dir` with the token clear.
EnumerateEntry ==
    /\ task.pc = "loop" /\ task.i <= Len(listing)
    /\ ~cancel
    /\ IF task.view = "Dirs"
       THEN DirsEntry(listing[task.i])
       ELSE FilesEntry(listing[task.i])
    /\ UNCHANGED << cancel, work, workers, results >>
    /\ OnlyTask

\* The token is seen set at the top of the loop (lines 82-84, 204-206).
AbandonAtEntry ==
    /\ task.pc = "loop" /\ task.i <= Len(listing)
    /\ cancel
    /\ task' = [task EXCEPT !.pc = "abandoned"]
    /\ UNCHANGED << cancel, sent, work, workers, results >>
    /\ OnlyTask

\* The loop is over.  scan_dir_approx appends the files aggregate (148-155)
\* and goes on to the pool when there is a subdirectory (157).
EndOfListing ==
    /\ task.pc = "loop" /\ task.i > Len(listing)
    /\ IF task.view = "Dirs"
       THEN task' = [task EXCEPT
                !.items = Append(@, Item(files_label(task.files_count),
                                         canonicalize(fs, task.path),
                                         task.files_total, "FilesAggregate",
                                         task.files_count)),
                !.pc = IF DOMAIN task.dir_names # {} THEN "precheck" ELSE "total"]
       ELSE task' = [task EXCEPT !.pc = "total"]
    /\ UNCHANGED << cancel, sent, work, workers, results >>
    /\ OnlyTask

\* The token is seen set before the pool is started (lines 158-160).
AbandonBeforePool ==
    /\ task.pc = "precheck"
    /\ cancel
    /\ task' = [task EXCEPT !.pc = "abandoned"]
    /\ UNCHANGED << cancel, sent, work, workers, results >>
    /\ OnlyTask

\* du_sizes_parallel 263-294: the job list is the paths of the Dir items and
\* n workers are spawned, n = min(available_parallelism, 8).
PoolStart ==
    /\ task.pc = "precheck"
    /\ ~cancel
    /\ LET dirs == SelectSeq(task.items, LAMBDA it : it.kind = "Dir")
       IN  work' = [k \in 1..Len(dirs) |-> dirs[k].path]
    /\ \E n \in 1..MaxWorkers :
         workers' = [w \in 1..n |-> [pc |-> "check", job |-> None]]
    /\ task' = [task EXCEPT !.pc = "collect"]
    /\ UNCHANGED << cancel, sent, results >>
    /\ OnlyTask

\* A worker that does not look at the token.
WorkerCheckBlind(w) ==
    /\ workers[w].pc = "check"
    /\ workers' = [workers EXCEPT ![w].pc = "pop"]
    /\ UNCHANGED << cancel, sent, task, work, results >>
    /\ OnlyTask

\* A worker at the top of its loop (lines 281-283): it breaks when it sees
\* the token set.
WorkerCheck(w) ==
    /\ workers[w].pc = "check"
    /\ workers' = [workers EXCEPT ![w].pc = IF cancel THEN "stopped" ELSE "pop"]
    /\ UNCHANGED << cancel, sent, task, work, results >>
    /\ OnlyTask

\* A pop whose lock is held until du has returned: no worker pops while
\* another is in du.
WorkerPopLockHeld(w) ==
    /\ workers[w].pc = "pop"
    /\ \A v \in 1..Len(workers) : workers[v].pc # "du"
    /\ IF work = <<>>
       THEN /\ workers' = [workers EXCEPT ![w].pc = "drained"]
            /\ UNCHANGED work
       ELSE /\ workers' = [workers EXCEPT ![w].pc = "du",
                                          ![w].job = Some(work[Len(work)])]
            /\ work' = SubSeq(work, 1, Len(work) - 1)
    /\ UNCHANGED << cancel, sent, task, results >>
    /\ OnlyTask

\* A pop without the lock: a worker that reads the list while another is
\* about to pop takes the last job and leaves it in the list.
WorkerPopUnlocked(w) ==
    /\ workers[w].pc = "pop"
    /\ IF work = <<>>
       THEN /\ workers' = [workers EXCEPT ![w].pc = "drained"]
            /\ UNCHANGED work
       ELSE /\ workers' = [workers EXCEPT ![w].pc = "du",
                                          ![w].job = Some(work[Len(work)])]
            /\ work' = IF \E v \in 1..Len(workers) : v # w /\ workers[v].pc = "pop"
                       THEN work
                       ELSE SubSeq(work, 1, Len(work) - 1)
    /\ UNCHANGED << cancel, sent, task, results >>
    /\ OnlyTask

\* work.lock().unwrap().pop() (lines 284-288): the last job of the list, or
\* the end of the worker when the list is empty.
WorkerPop(w) ==
    /\ workers[w].pc = "pop"
    /\ IF work = <<>>
       THEN /\ workers' = [workers EXCEPT ![w].pc = "drained"]
            /\ UNCHANGED work
       ELSE /\ workers' = [workers EXCEPT ![w].pc = "du",
                                          ![w].job = Some(work[Len(work)])]
            /\ work' = SubSeq(work, 1, Len(work) - 1)
    /\ UNCHANGED << cancel, sent, task, results >>
    /\ OnlyTask

\* The entry of the listing that a job of the pool names.
EntryOf(path) ==
    CHOOSE x \in { listing[k] : k \in 1..Len(listing) } : x.name = file_name(path)

\* Command::output() of du_size_single (line 314) does not return for path.
Hangs(path) == EntryOf(path).du = Never

\* du_size_single(&path).unwrap_or(u64::MAX).
DuOrMax(path) ==
    IF IsSome(EntryOf(path).du) THEN Unwrap(EntryOf(path).du) ELSE U64Max

\* du_size_single(&path).unwrap_or(0) for the subdirectory named by its path.
DuOrZero(path) ==
    IF IsSome(EntryOf(path).du) THEN Unwrap(EntryOf(path).du) ELSE 0

\* du returns and the worker sends the pair (lines 289-290).
WorkerDu(w) ==
    /\ workers[w].pc = "du"
    /\ ~Hangs(Unwrap(workers[w].job))
    /\ results' = Append(results, << Unwrap(workers[w].job),
                                     DuOrZero(Unwrap(workers[w].job)) >>)
    /\ workers' = [workers EXCEPT ![w].pc = "check", ![w].job = None]
    /\ UNCHANGED << cancel, sent, task, work >>
    /\ OnlyTask

\* `for item in rx.iter()` receives a pair (lines 297-299).
Collect ==
    /\ task.pc = "collect"
    /\ results # <<>>
    /\ task' = [task EXCEPT !.out = Append(@, Head(results))]
    /\ results' = Tail(results)
    /\ UNCHANGED << cancel, sent, work, workers >>
    /\ OnlyTask

\* The sizes of the batch written into the items (lines 168-175).
RECURSIVE ApplySizes(_, _, _)
ApplySizes(its, names, batch) ==
    IF batch = <<>> THEN its
    ELSE LET p == Head(batch)[1]
             next == IF p \in DOMAIN names
                     THEN [its EXCEPT ![names[p]].size = Head(batch)[2]]
                     ELSE its
         IN  ApplySizes(next, names, Tail(batch))

\* A collecting loop that ends as soon as the channel is empty, whatever the
\* workers are doing.
PoolJoinedEarly ==
    /\ task.pc = "collect"
    /\ results = <<>>
    /\ task' = [task EXCEPT
           !.items = ApplySizes(task.items, task.dir_names, task.out),
           !.pc = "total"]
    /\ SendMsg(Progress(task.scanned, task.errors))
    /\ UNCHANGED << cancel, work, workers, results >>
    /\ OnlyTask

\* Every worker has ended, so rx.iter() ends and the joins return (297-303);
\* the sizes received are written into the items and a Progress is sent
\* (167-181).
PoolJoined ==
    /\ task.pc = "collect"
    /\ results = <<>>
    /\ \A w \in 1..Len(workers) : workers[w].pc \in { "stopped", "drained" }
    /\ task' = [task EXCEPT
           !.items = ApplySizes(task.items, task.dir_names, task.out),
           !.pc = "total"]
    /\ SendMsg(Progress(task.scanned, task.errors))
    /\ UNCHANGED << cancel, work, workers, results >>
    /\ OnlyTask

\* total, sort, Done (lines 184-188, 256-260).  When the sizes add up to more
\* than u64::MAX, `sum` panics in a build with overflow checks and wraps in
\* one without.
Total ==
    /\ task.pc = "total"
    /\ \E overflow_checks \in BOOLEAN :
         IF SumOverflows(task.items) /\ overflow_checks
         THEN /\ task' = [task EXCEPT !.pc = "panicked"]
              /\ UNCHANGED sent
         ELSE /\ task' = [task EXCEPT !.pc = "returned"]
              /\ SendMsg(DoneMsg(task.items, task.errors))
    /\ UNCHANGED << cancel, work, workers, results >>
    /\ OnlyTask

\* The holder of the handle sets the token (App::start_scan, main.rs 107).
Cancel ==
    /\ ~cancel
    /\ cancel' = TRUE
    /\ UNCHANGED << sent, task, work, workers, results >>
    /\ OnlyTask

NextScan ==
    \/ ThreadStart
    \/ EnumerateEntry
    \/ AbandonAtEntry
    \/ EndOfListing
    \/ AbandonBeforePool
    \/ PoolStart
    \/ \E w \in 1..Len(workers) : WorkerCheck(w)
    \/ \E w \in 1..Len(workers) : WorkerPop(w)
    \/ \E w \in 1..Len(workers) : WorkerDu(w)
    \/ Collect
    \/ PoolJoined
    \/ Total
    \/ Cancel

SpecScan == InitScan /\ [][NextScan]_vars

\* The positions in `sent` of the terminal messages (Done or Error).
Terminals == { n \in 1..Len(sent) : sent[n].type \in { "Done", "Error" } }

\* C6: what a scan sends is Progress messages followed by at most one
\* terminal message, Done or Error, with nothing after it; and a scan whose
\* thread has ended without a terminal message is one whose token was set.
C6_OneTerminalUnlessCancelled ==
    /\ Cardinality(Terminals) <= 1
    /\ \A n \in Terminals : n = Len(sent)
    /\ (task.pc \in Ended /\ Terminals = {}) => cancel

\* C7: once the token has been seen set at a check point of the scan (the
\* enumeration loop, the check before the pool, the loop of a worker), the
\* scan sends no Done.
C7_NoDoneAfterCancelSeen ==
    (\/ task.pc = "abandoned"
     \/ \E w \in 1..Len(workers) : workers[w].pc = "stopped")
    => \A n \in 1..Len(sent) : sent[n].type # "Done"

\* C14: a scan whose root is /proc or beneath it, in either view mode, reads
\* no entry and starts no pool, and what it sends is exactly one message,
\* the Error "/proc is excluded": no Progress and no Done.
C14_ProcRootRejected ==
    (task.pc # "none" /\ starts_with(task.path, ProcRoot))
    => /\ task.pc \in { "start", "failed" }
       /\ task.i = 1 /\ task.scanned = 0 /\ task.items = <<>>
       /\ work = <<>> /\ workers = <<>> /\ results = <<>>
       /\ sent = IF task.pc = "start" THEN <<>>
                 ELSE << Error("/proc is excluded") >>

C14_Witness ==
    /\ task.path = join(ProcRoot, "1") /\ task.view = "Files"
    /\ listing # <<>>
    /\ task.pc = "failed"
    /\ sent = << Error("/proc is excluded") >>

\* The Done messages the scan has sent.
DoneSent == { sent[n] : n \in { k \in 1..Len(sent) : sent[k].type = "Done" } }

\* The entries of the listing of the given kinds that are not under /proc.
Enumerated(kinds) ==
    { k \in 1..Len(listing) :
        /\ listing[k].kind \in kinds
        /\ ~starts_with(join(canonicalize(fs, task.path), listing[k].name),
                        ProcRoot) }

\* The lengths of the regular files of the listing, added up.
FilesLenSum ==
    SumSeq([k \in 1..Len(listing) |->
              IF k \in Enumerated({ "file" }) THEN listing[k].len ELSE 0])

\* What C15 says of the kinds and of the count, for the items of a Done.
FoldsFiles(its) ==
    /\ \A i \in 1..Len(its) : its[i].kind # "File"
    /\ \A k \in Enumerated({ "dir" }) :
         Cardinality({ i \in 1..Len(its) : /\ its[i].kind = "Dir"
                                            /\ its[i].name = listing[k].name }) = 1
    /\ Cardinality({ i \in 1..Len(its) : its[i].kind = "Dir" })
         = Cardinality(Enumerated({ "dir" }))
    /\ Cardinality({ i \in 1..Len(its) : its[i].kind = "FilesAggregate" }) = 1
    /\ \A i \in 1..Len(its) :
         its[i].kind = "FilesAggregate"
         => its[i].count = Cardinality(Enumerated({ "file", "nometa" }))

\* C15 as stated: the Done of a directory-aggregate scan holds no File
\* item, one Dir item per subdirectory enumerated, and one FilesAggregate
\* item whose count is the number of regular files enumerated and whose
\* size is the sum of their sizes.
C15_DirsDoneFoldsFiles ==
    task.view = "Dirs"
    => \A m \in DoneSent :
         /\ FoldsFiles(m.items)
         /\ \A i \in 1..Len(m.items) :
              m.items[i].kind = "FilesAggregate" => m.items[i].size = FilesLenSum

\* C15, amended: as above, with the size of the FilesAggregate item the sum
\* of the sizes of the regular files whose metadata could be read, limited
\* to u64::MAX.
C15_DirsDoneFoldsFilesSaturating ==
    task.view = "Dirs"
    => \A m \in DoneSent :
         /\ FoldsFiles(m.items)
         /\ \A i \in 1..Len(m.items) :
              m.items[i].kind = "FilesAggregate"
              => m.items[i].size = IF FilesLenSum > U64Max THEN U64Max
                                   ELSE FilesLenSum

C15_Witness ==
    /\ task.view = "Dirs" /\ DoneSent # {}
    /\ Cardinality(Enumerated({ "file" })) = 2
    /\ FilesLenSum > U64Max
    /\ \E m \in DoneSent : \E i \in 1..Len(m.items) :
         /\ m.items[i].kind = "FilesAggregate"
         /\ m.items[i].count = 2 /\ m.items[i].size = U64Max

\* C16: the Done of a file-listing scan holds only File items, one per
\* regular file of the root with the length of that file (0 when its
\* metadata cannot be read); directories, symlinks and entries of any other
\* type give no item.
C16_FilesDoneOnlyRegular ==
    task.view = "Files"
    => \A m \in DoneSent :
         /\ \A i \in 1..Len(m.items) : m.items[i].kind = "File"
         /\ Len(m.items) = Cardinality(Enumerated({ "file", "nometa" }))
         /\ \A k \in Enumerated({ "file", "nometa" }) :
              \E i \in 1..Len(m.items) :
                /\ m.items[i].name = listing[k].name
                /\ m.items[i].size = listing[k].len

\* The names of the symbolic links of the listing.
LinkNames == { listing[k].name : k \in Enumerated({ "symlink" }) }

\* C17: in both view modes a symbolic link is skipped.  No item of the task
\* or of a Done and no job or result of the pool is one of a symbolic link,
\* and the turn of the loop that meets one changes neither the items, the
\* files aggregate's count and size, the counters scanned and errors, nor
\* what was sent: it only moves on to the next entry.
C17_SymlinksSkipped ==
    /\ [](/\ \A m \in DoneSent : \A i \in 1..Len(m.items) :
              m.items[i].name \notin LinkNames
          /\ task.pc # "none" =>
               /\ \A i \in 1..Len(task.items) : task.items[i].name \notin LinkNames
               /\ \A j \in 1..Len(work) : file_name(work[j]) \notin LinkNames
               /\ \A w \in 1..Len(workers) :
                    IsSome(workers[w].job)
                    => file_name(Unwrap(workers[w].job)) \notin LinkNames
               /\ \A j \in 1..Len(results) : file_name(results[j][1]) \notin LinkNames)
    /\ [][(/\ task.pc = "loop" /\ task.i <= Len(listing)
           /\ listing[task.i].kind = "symlink"
           /\ task' # task /\ task'.pc = "loop")
          => (task' = [task EXCEPT !.i = @ + 1] /\ sent' = sent)]_vars

C17_Witness ==
    /\ DoneSent # {}
    /\ LinkNames # {}
    /\ \E k \in 1..Len(listing) : listing[k].kind \in { "file", "dir" }
    /\ \E m \in DoneSent : m.items # <<>>

\* The paths handed to du_sizes_parallel: those of the Dir items.
Submitted == { task.items[i].path : i \in { k \in 1..Len(task.items) :
                                              task.items[k].kind = "Dir" } }

\* The pool has been started.
PoolRan == task.pc \in { "collect", "total", "returned", "panicked" }
             /\ workers # <<>>

\* C23: in a directory-aggregate scan, once the task is past the pool (and
\* so whenever a Done has been sent) every worker has ended, none holds a
\* job, the channel of results is empty, and every job that was popped has
\* its pair among the results received; and a Done is sent only by a task
\* that went through that point.
C23_DoneAfterWorkersEnded ==
    /\ (task.pc # "none" /\ DoneSent # {}) => task.pc = "returned"
    /\ (task.pc \in { "total", "returned", "panicked" } /\ task.view = "Dirs")
       => /\ \A w \in 1..Len(workers) :
               /\ workers[w].pc \in { "stopped", "drained" }
               /\ workers[w].job = None
          /\ results = <<>>
          /\ workers # <<>>
             => Len(task.out) + Len(work) = Cardinality(Submitted)

\* A pool of two workers sized two subdirectories, both workers found the
\* list empty and ended, and the Done followed.
C23_Witness ==
    /\ DoneSent # {} /\ ~cancel
    /\ Len(workers) = 2
    /\ \A w \in 1..Len(workers) : workers[w].pc = "drained"
    /\ Len(task.out) = 2
    /\ work = <<>> /\ results = <<>>

\* How often path p occurs in the job list, in the hands of the workers, in
\* the channel of results and in the results received.
Occurrences(p) ==
    Cardinality({ j \in 1..Len(work) : work[j] = p })
    + Cardinality({ w \in 1..Len(workers) : workers[w].job = Some(p) })
    + Cardinality({ j \in 1..Len(results) : results[j][1] = p })
    + Cardinality({ j \in 1..Len(task.out) : task.out[j][1] = p })

\* C24: under every interleaving of the workers, each submitted
\* subdirectory is at any moment in exactly one place - still in the job
\* list, with the one worker that popped it, or as one pair in the results -
\* and nothing else is; when the token is not set and the pool is through,
\* the results received hold exactly one pair per submitted subdirectory,
\* and each Dir item of the task and of the Done carries the size of the
\* pair of its own path.
C24_EachJobSizedOnce ==
    PoolRan =>
      /\ \A p \in Submitted : Occurrences(p) = 1
      /\ \A j \in 1..Len(task.out) : task.out[j][1] \in Submitted
      /\ \A j \in 1..Len(results) : results[j][1] \in Submitted
      /\ (~cancel /\ task.pc \in { "total", "returned", "panicked" })
         => /\ work = <<>>
            /\ Len(task.out) = Cardinality(Submitted)
            /\ \A j \in 1..Len(task.out) :
                 /\ \A i \in 1..Len(task.items) :
                      task.items[i].path = task.out[j][1] /\ task.items[i].kind = "Dir"
                      => task.items[i].size = task.out[j][2]
                 /\ \A m \in DoneSent : \A i \in 1..Len(m.items) :
                      m.items[i].path = task.out[j][1] /\ m.items[i].kind = "Dir"
                      => m.items[i].size = task.out[j][2]

\* Two workers sized two subdirectories of different sizes and the Done
\* carries both sizes.
C24_Witness ==
    /\ DoneSent # {} /\ ~cancel
    /\ Len(workers) = 2
    /\ Cardinality(Submitted) = 2
    /\ \E m \in DoneSent :
         /\ \E i \in 1..Len(m.items) : m.items[i].kind = "Dir" /\ m.items[i].size = U64Max
         /\ \E i \in 1..Len(m.items) : m.items[i].kind = "Dir" /\ m.items[i].size = 1

\* The number of entries that count as errors: read_dir yielded Err, or
\* file_type or the metadata of a regular file failed.
EnumErrors == Cardinality(Enumerated({ "unreadable", "notype", "nometa" }))

\* C25: in the Done of a directory-aggregate scan every subdirectory
\* enumerated has its Dir item, the item of a subdirectory for which du
\* failed has size 0, and the errors of the Done are the number of entries that failed in the
\* enumeration, du failures not among them; a du failure makes the task
\* neither fail nor stop.
C25_DuFailureIsSizeZero ==
    /\ \A m \in DoneSent :
         task.view = "Dirs" =>
           /\ m.errors = EnumErrors
           /\ \A k \in Enumerated({ "dir" }) :
                \E i \in 1..Len(m.items) :
                   /\ m.items[i].kind = "Dir"
                   /\ m.items[i].name = listing[k].name
           /\ \A i \in 1..Len(m.items) :
                (m.items[i].kind = "Dir" /\ EntryOf(m.items[i].path).du = None)
                => m.items[i].size = 0
    /\ (task.pc # "none" /\ task.pc = "failed") => (task.i = 1 /\ workers = <<>>)
    /\ (task.pc # "none" /\ task.pc = "abandoned") => cancel

\* du failed for one subdirectory and succeeded for another: the Done has
\* both items, the first with size 0, and no error is counted.
C25_Witness ==
    /\ ~cancel
    /\ \E m \in DoneSent :
         /\ m.errors = 0 /\ m.total = 1
         /\ \E i \in 1..Len(m.items) :
              /\ m.items[i].kind = "Dir" /\ m.items[i].size = 0
              /\ EntryOf(m.items[i].path).du = None
         /\ \E i \in 1..Len(m.items) :
              m.items[i].kind = "Dir" /\ m.items[i].size = 1

\* C26: in both view modes the turn of the loop that meets an entry that
\* cannot be read, or whose type cannot be determined, adds 1 to errors and
\* moves on to the next entry, leaving items, jobs, the files aggregate, the
\* scanned counter and the messages sent as they were; and a Done carries as
\* errors the number of entries that failed in the enumeration.
C26_BadEntryCountedAndSkipped ==
    /\ [](\A m \in DoneSent : m.errors = EnumErrors)
    /\ [][(/\ task.pc = "loop" /\ task.i <= Len(listing)
           /\ listing[task.i].kind \in { "unreadable", "notype" }
           /\ task' # task /\ task'.pc = "loop")
          => /\ task' = [task EXCEPT !.i = @ + 1, !.errors = @ + 1]
             /\ sent' = sent
             /\ work' = work /\ workers' = workers /\ results' = results]_vars

\* The first entry could not be read, the scan went on to the file after it
\* and ended with a Done that has the file and counts one error.
C26_Witness ==
    /\ Len(listing) = 2
    /\ listing[1].kind \in { "unreadable", "notype" }
    /\ \E m \in DoneSent :
         /\ m.errors = 1
         /\ Len(m.items) = 1 /\ m.items[1].kind = "File"

(***************************************************************************)
(* SpecScanLive: a directory-aggregate scan of a directory of              *)
(* subdirectories, next to a second scan started while it runs.  Every     *)
(* thread that can take a step eventually takes it; a du that hangs never  *)
(* does, and nobody is bound to set the token.                             *)
(***************************************************************************)
InitScanLive ==
    /\ InitScan
    /\ task.path = DirA /\ task.view = "Dirs"
    /\ \A k \in 1..Len(listing) : listing[k].kind = "dir"

\* App::start_scan starts another scan, of its own thread, channel and
\* token (scan.rs 46-63).
OtherScanStarts ==
    /\ task.pc # "start"
    /\ scans = <<>>
    /\ \E p \in { DirC, ProcRoot } : scans' = << NewScan(p, "Files") >>
    /\ OnlyScans

\* A step of the thread of the other scan.
OtherScanRuns ==
    \E i \in 1..Len(scans) : ScanFails(i) \/ ScanEnumerates(i) \/ ScanFinishes(i)

\* Worker w of the pool takes the step it is at.
WorkerRuns(w) ==
    /\ w <= Len(workers)
    /\ (WorkerCheck(w) \/ WorkerPop(w) \/ WorkerDu(w))

NextScanLive == NextScan \/ OtherScanStarts \/ OtherScanRuns

SpecScanLive ==
    /\ InitScanLive /\ [][NextScanLive]_vars
    /\ \A w \in 1..MaxWorkers : WF_vars(WorkerRuns(w))
    /\ WF_vars(Collect)
    /\ WF_vars(OtherScanRuns)

\* A worker is in a du call that does not return.
Stalled ==
    \E w \in 1..Len(workers) :
        workers[w].pc = "du" /\ Hangs(Unwrap(workers[w].job))

\* Every job but the hanging ones has been popped and sized.
OthersSized ==
    /\ work = <<>>
    /\ \A i \in 1..Len(task.items) :
         (task.items[i].kind = "Dir" /\ ~Hangs(task.items[i].path))
         => \/ \E j \in 1..Len(results) : results[j][1] = task.items[i].path
            \/ \E j \in 1..Len(task.out) : task.out[j][1] = task.items[i].path

\* The other scan has sent its terminal message.
OtherScanEnded == scans # <<>> /\ scans[1].term \in { "Done", "Error" }

\* C18 as stated: for every pool size, when the du call of one worker hangs,
\* the enumeration is over and unaffected, every other job is eventually
\* popped and sized unless the token is set, and another scan started
\* meanwhile reaches its terminal message.
C18_HangStallsOneSlot ==
    /\ [](Stalled => (task.pc = "collect" /\ task.i > Len(listing)))
    /\ Stalled ~> (cancel \/ OthersSized)
    /\ (scans # <<>>) ~> OtherScanEnded

\* C18, amended: the same for a pool of two workers or more.
C18_HangStallsOneSlotOfMany ==
    /\ [](Stalled => (task.pc = "collect" /\ task.i > Len(listing)))
    /\ (Stalled /\ Len(workers) >= 2) ~> (cancel \/ OthersSized)
    /\ (scans # <<>>) ~> OtherScanEnded

C18_Witness ==
    /\ Stalled /\ ~cancel
    /\ Len(workers) >= 2
    /\ Len(task.items) >= 3
    /\ OthersSized
    /\ OtherScanEnded

(***************************************************************************)
(* SpecScanFair: the scan task of SpecScan, for every root, view and       *)
(* listing, with its thread and each worker of the pool scheduled          *)
(* eventually.  Nobody is bound to set the token, and a du that hangs      *)
(* never returns.                                                          *)
(***************************************************************************)
\* The thread of the scan takes the step it is at.
ThreadRuns ==
    \/ ThreadStart \/ EnumerateEntry \/ AbandonAtEntry \/ EndOfListing
    \/ AbandonBeforePool \/ PoolStart \/ Collect \/ PoolJoined \/ Total

SpecScanFair ==
    /\ InitScan /\ [][NextScan]_vars
    /\ WF_vars(ThreadRuns)
    /\ \A w \in 1..MaxWorkers : WF_vars(WorkerRuns(w))

\* Every worker of the pool has ended.
WorkersEnded == \A w \in 1..Len(workers) : workers[w].pc \in { "stopped", "drained" }

\* No du call of this scan hangs.
AllDuReturn == \A k \in 1..Len(listing) : listing[k].du # Never

\* C29: a scan whose du calls all return sends at most one terminal
\* message, and unless its token is set it eventually has sent one, Done or
\* Error, with its thread and every worker of its pool ended.
C29_ScanSendsOneTerminal ==
    /\ [](Cardinality(Terminals) <= 1)
    /\ (task.pc = "start" /\ AllDuReturn)
       ~> (cancel \/ (/\ Cardinality(Terminals) = 1
                      /\ task.pc \in Ended
                      /\ WorkersEnded))

\* C30: once the token is set the enumeration loop takes no further entry
\* and no pool is started; a worker at its check stops, a worker past its
\* check pops at most the one job and none after it, a worker that has
\* ended stays ended, and the jobs left in the list stay there; a du call in
\* flight is not interrupted: its worker sends the pair with the size du
\* reports; and unless a du call hangs, the thread of the scan ends.
C30_CancelIsCooperative ==
    /\ [][cancel =>
           /\ (task.pc = "loop" /\ task.i <= Len(listing))
              => /\ task'.pc \in { "loop", "abandoned" }
                 /\ task'.i = task.i /\ task'.items = task.items
                 /\ task'.scanned = task.scanned /\ sent' = sent
           /\ task.pc = "precheck"
              => (task'.pc \in { "precheck", "abandoned" } /\ workers' = <<>>)
           /\ \A w \in 1..Len(workers) :
                /\ workers[w].pc = "check"
                   => workers'[w].pc \in { "check", "stopped" }
                /\ workers[w].pc \in { "stopped", "drained" }
                   => workers'[w] = workers[w]
                /\ (workers[w].pc = "pop" /\ workers'[w] # workers[w])
                   => workers'[w].pc \in { "du", "drained" }
                /\ (workers[w].pc = "du" /\ workers'[w] # workers[w])
                   => /\ workers'[w].pc = "check"
                      /\ results' = Append(results,
                             << Unwrap(workers[w].job),
                                DuOrZero(Unwrap(workers[w].job)) >>)
           /\ (workers # <<>> /\ WorkersEnded) => work' = work]_vars
    /\ cancel ~> (task.pc \in Ended \/ Stalled)

\* The token was set while one worker was in du and a job was still in the
\* list: the call in flight was completed and received, the job is still in
\* the list, every worker has stopped and the thread has ended.
C30_Witness ==
    /\ cancel
    /\ task.pc \in Ended
    /\ workers # <<>>
    /\ \A w \in 1..Len(workers) : workers[w].pc = "stopped"
    /\ Len(work) = 1
    /\ Len(task.out) = 1

(***************************************************************************)
(* SpecLayout: the layout functions of layout.rs.  An f64 is modelled by   *)
(* the exact non-negative rational it stands for, n/d in lowest terms,     *)
(* with d = 0 for +infinity.                                               *)
(***************************************************************************)
\* Items, weights and sides of the inputs.
MaxItems == 6
MaxWeight == 1
MaxSide == 1
\* A second family of inputs: fewer items, of more weights, in larger panes.
MaxFew == 3
MaxHeavy == 2
MaxPane == 3

\* u16::MAX: what `as u16` gives for anything larger, infinity included.
U16Max == 65535

RECURSIVE GCD(_, _)
GCD(a, b) == IF b = 0 THEN a ELSE GCD(b, a % b)

Rat(n, d) == IF d = 0 THEN [n |-> 1, d |-> 0]
             ELSE IF n = 0 THEN [n |-> 0, d |-> 1]
             ELSE [n |-> n \div GCD(n, d), d |-> d \div GCD(n, d)]
Inf == Rat(1, 0)
FromInt(k) == Rat(k, 1)

RatAdd(a, b) == IF a.d = 0 \/ b.d = 0 THEN Inf
                ELSE Rat(a.n * b.d + b.n * a.d, a.d * b.d)
RatMul(a, b) == IF a.d = 0 \/ b.d = 0 THEN Inf ELSE Rat(a.n * b.n, a.d * b.d)
\* a / b, with x / 0 = +infinity for x > 0.
RatDiv(a, b) == IF a.d = 0 THEN Inf
                ELSE IF b.d = 0 THEN FromInt(0)
                ELSE Rat(a.n * b.d, a.d * b.n)
RatLe(a, b) == IF b.d = 0 THEN TRUE
               ELSE IF a.d = 0 THEN FALSE
               ELSE a.n * b.d <= b.n * a.d
RatMin(a, b) == IF RatLe(a, b) THEN a ELSE b
RatMax(a, b) == IF RatLe(a, b) THEN b ELSE a

\* `x as u16` without the round(): truncation.
trunc_u16(q) ==
    IF q.d = 0 THEN U16Max
    ELSE IF q.n \div q.d > U16Max THEN U16Max ELSE q.n \div q.d

\* `x.round() as u16`: half away from zero, saturating.
round_u16(q) ==
    IF q.d = 0 THEN U16Max
    ELSE LET fl == q.n \div q.d
             r == IF 2 * (q.n - fl * q.d) < q.d THEN fl ELSE fl + 1
         IN  IF r > U16Max THEN U16Max ELSE r

\* u16::saturating_add, u16::saturating_sub.
u16_add(a, b) == IF a + b > U16Max THEN U16Max ELSE a + b
u16_sub(a, b) == IF a < b THEN 0 ELSE a - b

Rect(x, y, width, height) == [x |-> x, y |-> y, width |-> width, height |-> height]
BlockRect(index, rect) == [index |-> index, rect |-> rect]

\* Only the first of the two ratios of line 165.
worst_first_ratio(min, max, sum, short) ==
    RatDiv(RatMul(RatMul(short, short), max), RatMul(sum, sum))

\* worst_ratio_stats (layout.rs 159-166).  The guard of line 160 returns
\* f64::MAX, taken here as infinity.
worst_ratio_stats(min, max, sum, short) ==
    IF RatLe(min, FromInt(0)) \/ RatLe(sum, FromInt(0)) THEN Inf
    ELSE LET s2 == RatMul(short, short)
             sum2 == RatMul(sum, sum)
         IN  RatMax(RatDiv(RatMul(s2, max), sum2), RatDiv(sum2, RatMul(s2, min)))

\* The sum of the areas of a row (line 171).
RECURSIVE RowArea(_)
RowArea(row) ==
    IF row = <<>> THEN FromInt(0) ELSE RatAdd(row[1].area, RowArea(Tail(row)))

\* The loop of layout_row over the row (lines 187-201, 224-238): `thick` is
\* the side shared by the row, `long` the side of rect the items split, and
\* `used` what the items before i took of it.
RECURSIVE RowBlocks(_, _, _, _, _, _)
RowBlocks(row, i, used, thick, rect, horizontal) ==
    IF i > Len(row) THEN <<>>
    ELSE LET long == IF horizontal THEN rect.width ELSE rect.height
             rounded == round_u16(RatDiv(row[i].area, FromInt(thick)))
             side == IF i = Len(row) THEN u16_sub(long, used)
                     ELSE IF rounded = 0 THEN 1 ELSE rounded
             r == IF horizontal
                  THEN Rect(u16_add(rect.x, used), rect.y, side, thick)
                  ELSE Rect(rect.x, u16_add(rect.y, used), thick, side)
         IN  << BlockRect(row[i].index, r) >>
             \o RowBlocks(row, i + 1, u16_add(used, side), thick, rect, horizontal)

\* A layout_row that returns only the blocks with room to be drawn.
layout_row_drawable(row, rect, is_last) ==
    LET horizontal == rect.width >= rect.height
        across == IF horizontal THEN rect.width ELSE rect.height
        limit == IF horizontal THEN rect.height ELSE rect.width
        rounded == round_u16(RatDiv(RowArea(row), FromInt(across)))
        atleast1 == IF rounded = 0 THEN 1 ELSE rounded
        clamped == IF atleast1 > limit THEN limit ELSE atleast1
        thick == IF is_last THEN limit ELSE clamped
    IN  [blocks |-> SelectSeq(RowBlocks(row, 1, 0, thick, rect, horizontal),
                              LAMBDA b : b.rect.width >= 1 /\ b.rect.height >= 1),
         rect |-> IF horizontal
                  THEN Rect(rect.x, u16_add(rect.y, thick), rect.width,
                            u16_sub(rect.height, thick))
                  ELSE Rect(u16_add(rect.x, thick), rect.y,
                            u16_sub(rect.width, thick), rect.height)]

\* layout_row (layout.rs 168-248): the blocks of the row and the rectangle
\* left for the rows that follow.
layout_row(row, rect, is_last) ==
    LET horizontal == rect.width >= rect.height
        across == IF horizontal THEN rect.width ELSE rect.height
        limit == IF horizontal THEN rect.height ELSE rect.width
        rounded == round_u16(RatDiv(RowArea(row), FromInt(across)))
        atleast1 == IF rounded = 0 THEN 1 ELSE rounded
        clamped == IF atleast1 > limit THEN limit ELSE atleast1
        thick == IF is_last THEN limit ELSE clamped
    IN  [blocks |-> RowBlocks(row, 1, 0, thick, rect, horizontal),
         rect |-> IF horizontal
                  THEN Rect(rect.x, u16_add(rect.y, thick), rect.width,
                            u16_sub(rect.height, thick))
                  ELSE Rect(u16_add(rect.x, thick), rect.y,
                            u16_sub(rect.width, thick), rect.height)]

\* The minimum, maximum and sum of the areas of a row, which treemap keeps
\* in row_min, row_max and row_sum (lines 35-37, 46-48, 61-63, 70-72).
RECURSIVE RowStats(_)
RowStats(row) ==
    IF Len(row) = 1
    THEN [min |-> row[1].area, max |-> row[1].area, sum |-> row[1].area]
    ELSE LET st == RowStats(SubSeq(row, 1, Len(row) - 1))
             a == row[Len(row)].area
         IN  [min |-> RatMin(st.min, a), max |-> RatMax(st.max, a),
              sum |-> RatAdd(st.sum, a)]

\* The loop of treemap from item i on (lines 40-79).
RECURSIVE Squarify(_, _, _, _)
Squarify(normalized, i, rect, row) ==
    IF i > Len(normalized)
    THEN IF row = <<>> THEN <<>> ELSE layout_row(row, rect, TRUE).blocks
    ELSE IF row = <<>>
    THEN Squarify(normalized, i + 1, rect, << normalized[i] >>)
    ELSE LET next == normalized[i]
             short == FromInt(IF rect.width < rect.height
                              THEN rect.width ELSE rect.height)
             st == RowStats(row)
             worst_before == worst_ratio_stats(st.min, st.max, st.sum, short)
             worst_after == worst_ratio_stats(RatMin(st.min, next.area),
                                              RatMax(st.max, next.area),
                                              RatAdd(st.sum, next.area), short)
         IN  IF RatLe(worst_after, worst_before)
             THEN Squarify(normalized, i + 1, rect, Append(row, next))
             ELSE LET laid == layout_row(row, rect, i >= Len(normalized))
                  IN  laid.blocks
                      \o Squarify(normalized, i + 1, laid.rect, << next >>)

\* treemap (layout.rs 8-82).  sizes is a sequence of << index, size >>.
treemap(pairs, rect) ==
    IF pairs = <<>> \/ rect.width = 0 \/ rect.height = 0 THEN <<>>
    ELSE LET tot == SumSeq([k \in 1..Len(pairs) |-> pairs[k][2]])
             its == SortDesc([k \in 1..Len(pairs) |->
                        [index |-> pairs[k][1],
                         size |-> IF tot = 0 \/ pairs[k][2] < 1
                                  THEN 1 ELSE pairs[k][2]]])
             total_f == SumSeq(SizesOf(its))
             area_f == rect.width * rect.height
             normalized == [k \in 1..Len(its) |->
                               [index |-> its[k].index,
                                area |-> RatMul(Rat(its[k].size, total_f),
                                                FromInt(area_f))]]
         IN  Squarify(normalized, 1, rect, <<>>)

\* The calls of layout_row that the loop of treemap makes from item i on
\* (lines 65 and 76), in order: the row, the rectangle and the is_last flag
\* handed over, and whether the call is the one after the loop (`final`).
RECURSIVE RowCalls(_, _, _, _)
RowCalls(normalized, i, rect, row) ==
    IF i > Len(normalized)
    THEN IF row = <<>> THEN <<>>
         ELSE << [row |-> row, rect |-> rect, is_last |-> TRUE, final |-> TRUE] >>
    ELSE IF row = <<>>
    THEN RowCalls(normalized, i + 1, rect, << normalized[i] >>)
    ELSE LET next == normalized[i]
             short == FromInt(IF rect.width < rect.height
                              THEN rect.width ELSE rect.height)
             st == RowStats(row)
             worst_before == worst_ratio_stats(st.min, st.max, st.sum, short)
             worst_after == worst_ratio_stats(RatMin(st.min, next.area),
                                              RatMax(st.max, next.area),
                                              RatAdd(st.sum, next.area), short)
         IN  IF RatLe(worst_after, worst_before)
             THEN RowCalls(normalized, i + 1, rect, Append(row, next))
             ELSE << [row |-> row, rect |-> rect,
                      is_last |-> i >= Len(normalized), final |-> FALSE] >>
                  \o RowCalls(normalized, i + 1,
                              layout_row(row, rect, i >= Len(normalized)).rect,
                              << next >>)

\* The calls of layout_row in treemap(pairs, rect).
treemap_rows(pairs, rect) ==
    IF pairs = <<>> \/ rect.width = 0 \/ rect.height = 0 THEN <<>>
    ELSE LET tot == SumSeq([k \in 1..Len(pairs) |-> pairs[k][2]])
             its == SortDesc([k \in 1..Len(pairs) |->
                        [index |-> pairs[k][1],
                         size |-> IF tot = 0 \/ pairs[k][2] < 1
                                  THEN 1 ELSE pairs[k][2]]])
             total_f == SumSeq(SizesOf(its))
             area_f == rect.width * rect.height
             normalized == [k \in 1..Len(its) |->
                               [index |-> its[k].index,
                                area |-> RatMul(Rat(its[k].size, total_f),
                                                FromInt(area_f))]]
         IN  RowCalls(normalized, 1, rect, <<>>)

\* `f64::from(n as u32).sqrt().ceil() as u16` (line 103).
CeilSqrt(n) == CHOOSE r \in 0..n : r * r >= n /\ (r = 0 \/ (r - 1) * (r - 1) < n)

\* The loop of grid_layout over a row (lines 134-150): `used` is the width
\* the items before i took.
RECURSIVE GridRow(_, _, _, _, _, _)
GridRow(row, i, used, y, height, rect) ==
    IF i > Len(row) THEN <<>>
    ELSE LET row_sum == SumSeq(SizesOf(row))
             rounded == round_u16(RatMul(Rat(row[i].size, row_sum),
                                         FromInt(rect.width)))
             width == IF i = Len(row) THEN u16_sub(rect.width, used)
                      ELSE IF rounded = 0 THEN 1 ELSE rounded
         IN  << BlockRect(row[i].index,
                          Rect(u16_add(rect.x, used), y, width, height)) >>
             \o GridRow(row, i + 1, u16_add(used, width), y, height, rect)

\* The loop of grid_layout over the rows from row ri on (lines 116-154).
RECURSIVE GridRows(_, _, _, _, _, _)
GridRows(rows_vec, ri, y, remaining_height, total_f, rect) ==
    IF ri > Len(rows_vec) THEN <<>>
    ELSE IF rows_vec[ri] = <<>> \/ remaining_height = 0
    THEN GridRows(rows_vec, ri + 1, y, remaining_height, total_f, rect)
    ELSE LET row == rows_vec[ri]
             remaining_rows == Len(rows_vec) - (ri - 1)
             rounded == round_u16(RatMul(Rat(SumSeq(SizesOf(row)), total_f),
                                         FromInt(rect.height)))
             atleast1 == IF rounded = 0 THEN 1 ELSE rounded
             max_height == u16_sub(remaining_height, u16_sub(remaining_rows, 1))
             clamped == IF atleast1 > max_height THEN max_height ELSE atleast1
             height == IF ri = Len(rows_vec) \/ clamped > remaining_height
                       THEN remaining_height ELSE clamped
         IN  GridRow(row, 1, 0, y, height, rect)
             \o GridRows(rows_vec, ri + 1, u16_add(y, height),
                         u16_sub(remaining_height, height), total_f, rect)

\* grid_layout (layout.rs 84-157).
grid_layout(pairs, rect) ==
    IF pairs = <<>> \/ rect.width = 0 \/ rect.height = 0 THEN <<>>
    ELSE LET tot == SumSeq([k \in 1..Len(pairs) |-> pairs[k][2]])
             total_f == IF tot = 0 THEN Len(pairs) ELSE tot
             its == SortDesc([k \in 1..Len(pairs) |->
                        [index |-> pairs[k][1],
                         size |-> IF tot = 0 \/ pairs[k][2] < 1
                                  THEN 1 ELSE pairs[k][2]]])
             n == Len(its)
             root == IF CeilSqrt(n) < 1 THEN 1 ELSE CeilSqrt(n)
             rows == IF root > rect.height
                     THEN (IF rect.height < 1 THEN 1 ELSE rect.height)
                     ELSE root
             rows_vec == [r \in 1..rows |->
                             [k \in 1..((n - r) \div rows + 1) |->
                                 its[r + (k - 1) * rows]]]
         IN  GridRows(rows_vec, 1, rect.y, rect.height, total_f, rect)

\* du -k reports kilobytes (scan.rs 322).
KB == 1024

\* The items of a directory with subdirectories of 30 KB, 20 KB and 10 KB
\* and files of 5 KB in all, as update_scan hands them to the layout, and
\* a treemap pane of 10 columns and 4 lines.
ScenarioSizes == << << 1, 30 * KB >>, << 2, 20 * KB >>, << 3, 10 * KB >>,
                    << 4, 5 * KB >> >>
ScenarioArea == Rect(0, 0, 10, 4)

\* The inputs: up to MaxItems pairs (i, weight) with weights in
\* 0..MaxWeight, as update_scan builds layout_sizes, and a rectangle at the
\* origin with sides in 0..MaxSide; or 1..MaxFew pairs with weights in
\* 0..MaxHeavy and a rectangle with sides in 1..MaxPane; or the items and
\* pane of the scenario.
InitLayout ==
    /\ \/ /\ \E n \in 0..MaxItems : \E w \in [1..n -> 0..MaxWeight] :
                sizes = [k \in 1..n |-> << k, w[k] >>]
          /\ \E width \in 0..MaxSide : \E height \in 0..MaxSide :
                area = Rect(0, 0, width, height)
       \/ /\ \E n \in 1..MaxFew : \E w \in [1..n -> 0..MaxHeavy] :
                sizes = [k \in 1..n |-> << k, w[k] >>]
          /\ \E width \in 1..MaxPane : \E height \in 1..MaxPane :
                area = Rect(0, 0, width, height)
       \/ /\ sizes = ScenarioSizes
          /\ area = ScenarioArea
    /\ blocks = None
    /\ grid = None
    /\ worst = None
    /\ listing = <<>>
    /\ cancel = FALSE
    /\ sent = <<>>
    /\ task = [pc |-> "none"]
    /\ work = <<>>
    /\ workers = <<>>
    /\ results = <<>>
    /\ fs = Removable
    /\ current_path = Root
    /\ view_mode = "Dirs"
    /\ items = <<>>
    /\ total = 0
    /\ layout_sizes = <<>>
    /\ layout_has_zero = FALSE
    /\ scan_state = ScanState(FALSE, 0, 0)
    /\ scan_handle = None
    /\ scans = <<>>
    /\ last_error = None
    /\ scan_cache = << >>
    /\ confirm = None
    /\ click_map = {}
    /\ up_rect = FALSE
    /\ phase = "poll"
    /\ dirty = FALSE
    /\ ev = [call |-> "none", delete |-> "none", purged |-> {}]
    /\ invalidated = FALSE

CallTreemap ==
    /\ blocks = None
    /\ grid = None
    /\ worst = None
    /\ blocks' = Some(treemap(sizes, area))
    /\ UNCHANGED << sizes, area, grid, worst, appVars, scanVars >>

CallGridLayout ==
    /\ grid = None
    /\ grid' = Some(grid_layout(sizes, area))
    /\ UNCHANGED << sizes, area, blocks, worst, appVars, scanVars >>

NextLayout == CallTreemap \/ CallGridLayout

SpecLayout == InitLayout /\ [][NextLayout]_vars

\* Width times height of the blocks of a layout, added up.
RECURSIVE AreaSum(_)
AreaSum(bs) ==
    IF bs = <<>> THEN 0
    ELSE bs[1].rect.width * bs[1].rect.height + AreaSum(Tail(bs))

\* Two rectangles share a cell.
Overlap(r, q) ==
    /\ r.width > 0 /\ r.height > 0 /\ q.width > 0 /\ q.height > 0
    /\ r.x < q.x + q.width /\ q.x < r.x + r.width
    /\ r.y < q.y + q.height /\ q.y < r.y + r.height

\* C10: for a non-empty list of pairs with positive weights and a rectangle
\* with width >= 1 and height >= 1, the rectangles treemap returns do not
\* overlap pairwise and their areas add up to the area of the rectangle.
C10_TreemapTilesArea ==
    (/\ IsSome(blocks)
     /\ sizes # <<>>
     /\ \A k \in 1..Len(sizes) : sizes[k][2] > 0
     /\ area.width >= 1 /\ area.height >= 1)
    => LET bs == Unwrap(blocks)
       IN  /\ \A i, j \in 1..Len(bs) : i # j => ~Overlap(bs[i].rect, bs[j].rect)
           /\ AreaSum(bs) = area.width * area.height

\* Rectangle r lies within rectangle q.
Inside(r, q) ==
    /\ q.x <= r.x /\ r.x + r.width <= q.x + q.width
    /\ q.y <= r.y /\ r.y + r.height <= q.y + q.height

\* C11: for n >= 1 pairs and a rectangle with width >= 1 and height >= 1,
\* grid_layout returns n blocks, one per input index, each with width >= 1
\* and height >= 1, and the blocks tile the rectangle: they lie inside it,
\* do not overlap pairwise and cover every cell.
C11_GridLayoutTiles ==
    (/\ IsSome(grid)
     /\ sizes # <<>>
     /\ area.width >= 1 /\ area.height >= 1)
    => LET bs == Unwrap(grid)
       IN  /\ Len(bs) = Len(sizes)
           /\ \A k \in 1..Len(sizes) :
                Cardinality({ i \in 1..Len(bs) : bs[i].index = sizes[k][1] }) = 1
           /\ \A i \in 1..Len(bs) :
                /\ bs[i].rect.width >= 1 /\ bs[i].rect.height >= 1
                /\ Inside(bs[i].rect, area)
           /\ \A i, j \in 1..Len(bs) : i # j => ~Overlap(bs[i].rect, bs[j].rect)
           /\ AreaSum(bs) = area.width * area.height

\* The area of the block that treemap returned for input index k.
BlockArea(k) ==
    LET bs == Unwrap(blocks)
        b == CHOOSE b \in { bs[i] : i \in 1..Len(bs) } : b.index = k
    IN  b.rect.width * b.rect.height

\* C12: for the items of 30 KB, 20 KB, 10 KB and 5 KB in a 10x4 rectangle,
\* treemap returns 4 rectangles, one per item, that lie inside the rectangle
\* and do not overlap pairwise, with areas that add up to 40, and the
\* rectangle of the 30 KB item has strictly more area than that of the
\* 10 KB item.
C12_ScenarioTiles40 ==
    (IsSome(blocks) /\ sizes = ScenarioSizes /\ area = ScenarioArea)
    => LET bs == Unwrap(blocks)
       IN  /\ Len(bs) = 4
           /\ { bs[i].index : i \in 1..Len(bs) } = 1..4
           /\ \A i \in 1..Len(bs) : Inside(bs[i].rect, area)
           /\ \A i, j \in 1..Len(bs) : i # j => ~Overlap(bs[i].rect, bs[j].rect)
           /\ AreaSum(bs) = 40
           /\ BlockArea(1) > BlockArea(3)

C12_Witness ==
    /\ IsSome(blocks) /\ sizes = ScenarioSizes /\ area = ScenarioArea
    /\ Len(Unwrap(blocks)) = 4
    /\ BlockArea(1) = 20 /\ BlockArea(3) = 10

\* The side that layout_row gives a row: the height of the blocks of a row
\* laid across the width, the width of those of a row laid down the height.
Thickness(c) ==
    LET b == layout_row(c.row, c.rect, c.is_last).blocks[1].rect
    IN  IF c.rect.width >= c.rect.height THEN b.height ELSE b.width

\* round(rowArea / primaryDimension), at least 1, clamped to what is left of
\* the rectangle.
UnforcedThickness(c) ==
    LET horizontal == c.rect.width >= c.rect.height
        primary == IF horizontal THEN c.rect.width ELSE c.rect.height
        left == IF horizontal THEN c.rect.height ELSE c.rect.width
        r == round_u16(RatDiv(RowArea(c.row), FromInt(primary)))
        t == IF r < 1 THEN 1 ELSE r
    IN  IF t > left THEN left ELSE t

\* The rectangle left when a row of thickness t is taken off rect.
Remaining(rect, t) ==
    IF rect.width >= rect.height
    THEN Rect(rect.x, rect.y + t, rect.width, rect.height - t)
    ELSE Rect(rect.x + t, rect.y, rect.width - t, rect.height)

\* C27: in treemap a row is laid out with is_last set only when it is the
\* last row of the layout, and then it takes all that is left of the
\* rectangle; a row closed because the next item starts a new row after it
\* gets the thickness round(rowArea / primaryDimension), at least 1 and
\* clamped to what is left, and the row after it gets the rectangle that
\* this thickness leaves.
C27_OnlyLastRowForced ==
    (IsSome(blocks) /\ sizes # <<>> /\ area.width >= 1 /\ area.height >= 1)
    => LET calls == treemap_rows(sizes, area)
       IN  \A n \in 1..Len(calls) :
             /\ calls[n].is_last => calls[n].final
             /\ calls[n].final
                => Remaining(calls[n].rect, Thickness(calls[n])).width
                     * Remaining(calls[n].rect, Thickness(calls[n])).height = 0
             /\ ~calls[n].final
                => /\ Thickness(calls[n]) = UnforcedThickness(calls[n])
                   /\ calls[n + 1].rect
                        = Remaining(calls[n].rect, UnforcedThickness(calls[n]))

\* C28: for a non-empty input of no more items than the rectangle has cells
\* and a rectangle with width >= 1 and height >= 1, treemap returns for
\* every input item, those of weight 0 included, exactly one block, and it
\* has width >= 1 and height >= 1 and lies inside the rectangle.
C28_EveryItemVisible ==
    (/\ IsSome(blocks)
     /\ sizes # <<>>
     /\ area.width >= 1 /\ area.height >= 1
     /\ Len(sizes) <= area.width * area.height)
    => LET bs == Unwrap(blocks)
       IN  \A k \in 1..Len(sizes) :
             /\ Cardinality({ i \in 1..Len(bs) : bs[i].index = sizes[k][1] }) = 1
             /\ \A i \in 1..Len(bs) :
                  bs[i].index = sizes[k][1]
                  => /\ bs[i].rect.width >= 1 /\ bs[i].rect.height >= 1
                     /\ Inside(bs[i].rect, area)

\* C31: for every non-empty input and every rectangle with width >= 1 and
\* height >= 1, treemap returns as many blocks as the input has pairs, and
\* the index of every input pair is the index of exactly one block, whatever
\* the weights and the rectangle: the output is never shorter than the input
\* (the test of render_treemap, main.rs 491-493, never succeeds for it).
C31_OneBlockPerPair ==
    (IsSome(blocks) /\ sizes # <<>> /\ area.width >= 1 /\ area.height >= 1)
    => LET bs == Unwrap(blocks)
       IN  /\ Len(bs) = Len(sizes)
           /\ \A k \in 1..Len(sizes) :
                Cardinality({ i \in 1..Len(bs) : bs[i].index = sizes[k][1] }) = 1

\* treemap has returned for more items than the rectangle has cells, in more
\* than one row, and some of the blocks have no width or no height.
C31_Witness ==
    /\ IsSome(blocks)
    /\ area.width >= 1 /\ area.height >= 1
    /\ Len(sizes) > area.width * area.height
    /\ Len(treemap_rows(sizes, area)) > 1
    /\ Len(Unwrap(blocks)) = Len(sizes)
    /\ \E i \in 1..Len(Unwrap(blocks)) :
         Unwrap(blocks)[i].rect.width = 0 \/ Unwrap(blocks)[i].rect.height = 0

(***************************************************************************)
(* SpecWorstRatio: worst_ratio_stats on a row before and after treemap     *)
(* adds a candidate to it (layout.rs 52-57).                               *)
(***************************************************************************)
\* The areas of a row, the shorter side and the candidate.
MaxArea == 3
MaxShort == 12
MaxCandidate == 30

\* A row with statistics 0 < min <= max <= sum, a shorter side of at least
\* 1 and a candidate heavier than the heaviest item of the row.
InitWorstRatio ==
    /\ \E min \in 1..MaxArea : \E max \in min..MaxArea : \E sum \in max..MaxArea :
       \E short \in 1..MaxShort : \E w \in (max + 1)..MaxCandidate :
         worst = [min |-> min, max |-> max, sum |-> sum, short |-> short,
                  w |-> w, before |-> None, after |-> None]
    /\ sizes = <<>>
    /\ area = Rect(0, 0, 0, 0)
    /\ blocks = None
    /\ grid = None
    /\ listing = <<>>
    /\ cancel = FALSE
    /\ sent = <<>>
    /\ task = [pc |-> "none"]
    /\ work = <<>>
    /\ workers = <<>>
    /\ results = <<>>
    /\ fs = Removable
    /\ current_path = Root
    /\ view_mode = "Dirs"
    /\ items = <<>>
    /\ total = 0
    /\ layout_sizes = <<>>
    /\ layout_has_zero = FALSE
    /\ scan_state = ScanState(FALSE, 0, 0)
    /\ scan_handle = None
    /\ scans = <<>>
    /\ last_error = None
    /\ scan_cache = << >>
    /\ confirm = None
    /\ click_map = {}
    /\ up_rect = FALSE
    /\ phase = "poll"
    /\ dirty = FALSE
    /\ ev = [call |-> "none", delete |-> "none", purged |-> {}]
    /\ invalidated = FALSE

\* worst_before and worst_after of treemap (lines 53-57) for a candidate
\* heavier than the row's maximum: next_min = min, next_max = w,
\* next_sum = sum + w.
CallWorstRatio ==
    /\ worst.before = None
    /\ LET short == FromInt(worst.short)
           next == FromInt(worst.w)
           min == FromInt(worst.min)
           max == FromInt(worst.max)
           sum == FromInt(worst.sum)
       IN  worst' = [worst EXCEPT
               !.before = Some(worst_ratio_stats(min, max, sum, short)),
               !.after = Some(worst_ratio_stats(RatMin(min, next),
                                                RatMax(max, next),
                                                RatAdd(sum, next), short))]
    /\ UNCHANGED << sizes, area, blocks, grid, appVars, scanVars >>

NextWorstRatio == CallWorstRatio

SpecWorstRatio == InitWorstRatio /\ [][NextWorstRatio]_vars

\* What counts as exceeding the maximum by a large factor.
LargeFactor == 10

\* C13 as stated: adding a candidate at least LargeFactor times as heavy as
\* the row's maximum never decreases the worst ratio.
C13_WorstRatioMonotonic ==
    (IsSome(worst.before) /\ worst.w >= LargeFactor * worst.max)
    => RatLe(Unwrap(worst.before), Unwrap(worst.after))

\* C13, amended: adding a candidate heavier than the row's maximum never
\* decreases the worst ratio when the row with the candidate is at least as
\* large as the square on the shorter side, sum + w >= L^2, whatever the
\* factor between the candidate and the maximum.
C13_MonotonicFromSquare ==
    (IsSome(worst.before) /\ worst.sum + worst.w >= worst.short * worst.short)
    => RatLe(Unwrap(worst.before), Unwrap(worst.after))

C13_Witness ==
    /\ IsSome(worst.before)
    /\ worst.w >= LargeFactor * worst.max
    /\ worst.sum + worst.w >= worst.short * worst.short
    /\ worst.short > 1
    /\ Unwrap(worst.before) # Unwrap(worst.after)
    /\ RatLe(Unwrap(worst.before), Unwrap(worst.after))

=============================================================================
